---- MODULE Spec2Model ----
(***************************************************************************)
(* Container-host resource of the HSDP Terraform provider: the create      *)
(* flow (validate, create call, recovery, poll, bootstrap, read) and the   *)
(* read / update / delete handlers, against a nondeterministic Cartel      *)
(* remote, local file system and SSH session.                              *)
(***************************************************************************)
EXTENDS Integers, Sequences, FiniteSets, TLC

\* ---------------------------------------------------------------- bounds
MaxFiles    == 2   \* entries in the "file" set of a request
MaxCommands == 2   \* entries in the "commands" list of a request
MaxTimeout  == 3   \* create timeout, in poll intervals
MaxTags     == 9   \* plain keys in a tag map handed to validateTags
MaxOps      == 2   \* read/update/delete handlers run on one stored record

\* ------------------------------------------------------------- constants
Pending    == {"provisioning", "indeterminate"}
Target     == {"succeeded"}
failStates == {"failed", "terminated", "shutting-down"}
\* a deployment state outside the documented enumeration
RemoteStates == Pending \cup Target \cup failStates \cup {"unknown"}

ErrInstanceIDMismatch == "ErrInstanceIDMismatch"

\* HTTP status codes the remote answers with; 0 stands for "no response"
NoResp          == 0
ErrorStatuses   == {400, 500}
StatusBadRequest == 400

Nil == [InstanceID |-> "", PrivateAddress |-> "", NameTag |-> ""]

\* ------------------------------------------------------------ the remote
OtherHost == [NameTag |-> "h2", InstanceID |-> "i-2", PrivateAddress |-> "10.0.0.2"]
SameHost  == [NameTag |-> "h1", InstanceID |-> "i-1", PrivateAddress |-> "10.0.0.1"]
NewHost(nm) == [NameTag |-> nm, InstanceID |-> "i-new", PrivateAddress |-> "10.0.0.9"]

\* instance lists the remote can hold before a handler runs
PreExisting == {<< >>, <<OtherHost>>, <<OtherHost, SameHost>>}

VARIABLES
  pc,           \* position of the running handler
  name,         \* d.Get("name")
  id,           \* d.Id()
  user,         \* d.Get("user")
  privateKey,   \* d.Get("private_key")
  commands,     \* d.Get("commands")
  files,        \* d.Get("file"), in Set.List() order
  timeout,      \* d.Timeout(schema.TimeoutCreate), in poll intervals
  fs,           \* local file system: what opening / stat-ing a source does
  fsChanged,    \* the local file system changed since validation
  instances,    \* instances the remote holds
  calls,        \* remote API calls issued so far, in order
  createRes,    \* what client.Create returned
  recovered,    \* what findInstanceByName returned to create (Nil: nothing)
  createFiles,  \* result of collectFilesToCreate
  instanceID,   \* local instanceID of create
  ipAddress,    \* local ipAddress of create
  seen,         \* deployment states the refresh function was handed
  polls,        \* refresh invocations of the wait loop
  elapsed,      \* poll intervals elapsed in the wait loop
  waitErr,      \* error WaitForStateContext ended with ("" if none)
  sshLog,       \* file writes and commands sent over the SSH session
  cmdIdx,       \* loop index i of the command loop (1-based)
  diags,        \* diagnostics the handler returned
  ops,          \* handlers run so far on the stored record
  lastOp,       \* the handler that ran last
  fetchedID,    \* InstanceID of the details the last handler fetched ("" if none)
  writeErrs,    \* destinations whose ssh.WriteFile returned an error
  lastRead,     \* what the last read of the stored record asked the remote side and got back
  stored,       \* security_groups, user_groups and tags of the stored record
  fn,           \* the function or handler under study in the other specifications
  args,         \* its arguments
  out,          \* its result
  applied,      \* whether it has been applied
  svcFailed     \* remote calls of the last IAM service handler that returned an error

vars == <<pc, name, id, user, privateKey, commands, files, timeout, fs,
          fsChanged, instances, calls, createRes, recovered, createFiles,
          instanceID, ipAddress, seen, polls, elapsed, waitErr, sshLog, cmdIdx,
          diags, ops, lastOp, fetchedID, writeErrs, lastRead, stored, fn, args,
          out, applied, svcFailed>>

\* the variables the container-host handlers never touch
otherVars == <<fn, args, out, applied, svcFailed>>

\* --------------------------------------------------------------- helpers
Diag(sev, summary, cause, about) ==
  [Severity |-> sev, Summary |-> summary, Cause |-> cause, About |-> about]

FromErr(summary, cause) == <<Diag("error", summary, cause, "")>>

HasError(ds) == \E i \in 1..Len(ds) : ds[i].Severity = "error"

Call(op, arg) == [op |-> op, arg |-> arg]

\* commands are "c1", "c2", ... in declaration order
CmdName(i) == CASE i = 1 -> "c1" [] i = 2 -> "c2" [] i = 3 -> "c3" [] OTHER -> "c4"
DestName(i) == CASE i = 1 -> "d1" [] i = 2 -> "d2" [] i = 3 -> "d3" [] OTHER -> "d4"

Sources  == {"", "a"}
Contents == {"", "x"}
FsKinds  == {"ok", "noopen", "nostat"}

\* file sets of at most MaxFiles entries; the i-th entry writes to "d<i>"
FileLists ==
  UNION {[1..n -> [Source : Sources, Content : Contents, Destination : {"d"}]]
           : n \in 0..MaxFiles}

WithDestinations(fl) == [i \in 1..Len(fl) |-> [fl[i] EXCEPT !.Destination = DestName(i)]]

CommandLists == {[i \in 1..n |-> CmdName(i)] : n \in 0..MaxCommands}

\* ----------------------------------------------------- file handles
\* os.Open succeeded: the handle of the entry's source is open
openHandle(log, d) == Append(log, [ev |-> "open", h |-> d])

\* variant: src.Close() is left out
closeHandleNever(log, d) == log

\* _ = src.Close()
closeHandle(log, d) == Append(log, [ev |-> "close", h |-> d])

\* ------------------------------------------------ collectFilesToCreate
\* returns the accepted files, the diagnostics and the handles opened and
\* closed on the way
RECURSIVE collectFrom(_, _, _, _)
collectFrom(vL, i, fsNow, acc) ==
  IF i > Len(vL) THEN acc
  ELSE
    LET file == vL[i] IN
    IF file.Source = "" /\ file.Content = ""
    THEN collectFrom(vL, i + 1, fsNow,
           [acc EXCEPT !.diags = Append(@, Diag("error", "conflict in file block", "neither", file.Destination))])
    ELSE IF file.Source # "" /\ file.Content # ""
    THEN collectFrom(vL, i + 1, fsNow,
           [acc EXCEPT !.diags = Append(@, Diag("error", "conflict in file block", "both", file.Destination))])
    ELSE IF file.Source # "" /\ fsNow[file.Source] = "noopen"
    THEN collectFrom(vL, i + 1, fsNow,
           [acc EXCEPT !.diags = Append(@, Diag("error", "issue with source", "open", file.Destination))])
    ELSE IF file.Source # "" /\ fsNow[file.Source] = "nostat"
    THEN collectFrom(vL, i + 1, fsNow,
           [acc EXCEPT !.diags = Append(@, Diag("error", "issue with source stat", "stat", file.Destination)),
                       !.log = closeHandle(openHandle(@, file.Destination), file.Destination)])
    ELSE IF file.Source # ""
    THEN collectFrom(vL, i + 1, fsNow,
           [acc EXCEPT !.files = Append(@, file),
                       !.log = closeHandle(openHandle(@, file.Destination), file.Destination)])
    ELSE collectFrom(vL, i + 1, fsNow, [acc EXCEPT !.files = Append(@, file)])

\* variant: reported entries stay in the copy set
collectFilesToCreateKeepAll(vL, fsNow) ==
  [files |-> vL,
   diags |-> collectFrom(vL, 1, fsNow, [files |-> << >>, diags |-> << >>, log |-> << >>]).diags,
   log |-> << >>]

collectFilesToCreate(vL, fsNow) ==
  collectFrom(vL, 1, fsNow, [files |-> << >>, diags |-> << >>, log |-> << >>])

\* ------------------------------------------------------ collectCommands
collectCommands(list) == [commands |-> list, diags |-> << >>]

\* ------------------------------------------------------------ copyFiles
\* returns the destinations written, in order, the error ("" if none) and
\* the handles opened and closed on the way
RECURSIVE copyFrom(_, _, _, _)
copyFrom(fl, i, fsNow, acc) ==
  IF i > Len(fl) THEN acc
  ELSE
    LET f == fl[i] IN
    IF f.Source # ""
    THEN IF fsNow[f.Source] = "noopen" THEN [acc EXCEPT !.err = "open"]
         ELSE IF fsNow[f.Source] = "nostat"
         THEN [acc EXCEPT !.err = "stat",
                          !.log = closeHandle(openHandle(@, f.Destination), f.Destination)]
         ELSE copyFrom(fl, i + 1, fsNow,
                [acc EXCEPT !.writes = Append(@, f.Destination),
                            !.log = closeHandle(openHandle(@, f.Destination), f.Destination)])
    ELSE copyFrom(fl, i + 1, fsNow, [acc EXCEPT !.writes = Append(@, f.Destination)])

\* variant: a source that fails is skipped and the loop goes on
RECURSIVE copyFromContinue(_, _, _, _)
copyFromContinue(fl, i, fsNow, acc) ==
  IF i > Len(fl) THEN acc
  ELSE
    LET f == fl[i] IN
    IF f.Source # "" /\ fsNow[f.Source] = "noopen"
    THEN copyFromContinue(fl, i + 1, fsNow, [acc EXCEPT !.err = "open"])
    ELSE IF f.Source # "" /\ fsNow[f.Source] = "nostat"
    THEN copyFromContinue(fl, i + 1, fsNow, [acc EXCEPT !.err = "stat"])
    ELSE copyFromContinue(fl, i + 1, fsNow,
                          [acc EXCEPT !.writes = Append(@, f.Destination)])

copyFilesContinue(fl, fsNow) ==
  copyFromContinue(fl, 1, fsNow, [writes |-> << >>, err |-> "", log |-> << >>])

copyFiles(fl, fsNow) ==
  copyFrom(fl, 1, fsNow, [writes |-> << >>, err |-> "", log |-> << >>])

\* --------------------------------------------------- findInstanceByName
RECURSIVE firstByName(_, _)
firstByName(list, nm) ==
  IF list = << >> THEN Nil
  ELSE IF Head(list).NameTag = nm THEN Head(list)
       ELSE firstByName(Tail(list), nm)

\* gaErr: client.GetAllInstances failed
findInstanceByName(list, nm, gaErr) ==
  IF gaErr THEN Nil ELSE firstByName(list, nm)

NameInUse(list, nm) == \E i \in 1..Len(list) : list[i].NameTag = nm

\* effect of client.Destroy on the remote; ok: the remote carried it out
RECURSIVE withoutName(_, _)
withoutName(list, nm) ==
  IF list = << >> THEN << >>
  ELSE IF Head(list).NameTag = nm THEN withoutName(Tail(list), nm)
       ELSE <<Head(list)>> \o withoutName(Tail(list), nm)

Destroyed(list, nm, ok) == IF ok THEN withoutName(list, nm) ELSE list

\* ---------------------------------------------- responses of the remote
\* client.Create: err, the HTTP status (NoResp: resp == nil), ch non-nil
CreateResponses ==
  {[err |-> FALSE, status |-> 200, ch |-> TRUE]}
  \cup {[err |-> TRUE, status |-> NoResp, ch |-> FALSE]}
  \cup [err : {TRUE}, status : ErrorStatuses, ch : BOOLEAN]

NoCreate == [err |-> FALSE, status |-> NoResp, ch |-> FALSE]

\* client.GetDeploymentState: err, the HTTP status, the state
StateResponses ==
  [err : {TRUE}, status : {NoResp, StatusBadRequest, 500}, state : {""}]
  \cup [err : {FALSE}, status : {200}, state : RemoteStates]

\* client.GetDetails by name: an error, or the details of the named instance
DetailsResponses(list, nm) ==
  {[err |-> TRUE, details |-> Nil]}
  \cup (IF NameInUse(list, nm)
        THEN {[err |-> FALSE, details |-> firstByName(list, nm)]} ELSE {})

\* what the remote holds after client.Create(nm): the host exists after a
\* success, and may exist after a failure that is not an explicit rejection
AfterCreate(list, nm, r, created) ==
  IF NameInUse(list, nm) THEN list
  ELSE IF ~r.err THEN Append(list, NewHost(nm))
  ELSE IF created /\ (r.status = NoResp \/ r.status >= 500) THEN Append(list, NewHost(nm))
  ELSE list

\* --------------------------------------------- InstanceStateRefreshFunc
\* variant: the target state is reported as a failure too
InstanceStateRefreshFuncFailsTarget(r, fail) ==
  IF r.err THEN [state |-> "", err |-> "fetch"]
  ELSE IF r.state \in fail \cup Target THEN [state |-> r.state, err |-> "failstate"]
  ELSE [state |-> r.state, err |-> ""]

\* the (state, err) pair the refresh function returns for a response
InstanceStateRefreshFunc(r, fail) ==
  IF r.err THEN [state |-> "", err |-> "fetch"]
  ELSE IF r.state \in fail THEN [state |-> r.state, err |-> "failstate"]
  ELSE [state |-> r.state, err |-> ""]

\* variant: "indeterminate" is not among the pending states
WaitStepNoIndeterminate(rf) ==
  IF rf.err # "" THEN rf.err
  ELSE IF rf.state \in Target THEN "done"
  ELSE IF rf.state = "provisioning" THEN "continue"
  ELSE "unexpected"

\* one iteration of WaitForStateContext on a refresh result
WaitStep(rf) ==
  IF rf.err # "" THEN rf.err
  ELSE IF rf.state \in Target THEN "done"
  ELSE IF rf.state \in Pending THEN "continue"
  ELSE "unexpected"

\* variant: the wait has no deadline
TimedOutNever(e, t) == FALSE

\* the create timeout has elapsed
TimedOut(e, t) == e >= t

\* variant: a plain 500 is not taken for a timeout
RecoverableAbove500(r) == ~r.ch \/ r.status > 500

\* variant: every failure with a response is taken for a timeout
RecoverableAlways(r) == TRUE

\* the creation failure is one create tries to recover from
Recoverable(r) == ~r.ch \/ r.status >= 500

\* variant: whatever the lookup by name returns is taken for the stored host
IDMatchesAlways(details, curId) == TRUE

\* the fetched details are those of the stored instance
IDMatches(details, curId) == details.InstanceID = curId

\* ------------------------------------------- resourceContainerHostRead
\* ------------------------------------------------------------ difference
\* the elements of a that are not in b
difference(a, b) == a \ b

\* ------------------------------------------------------------------ tags
TagKeys == {"billing", "env", "empty"}
TagValues == {"", "x", "prod"}
EmptyTags == [k \in {} |-> ""]
TagMaps == UNION {[ks -> TagValues] : ks \in SUBSET TagKeys}

\* variant: only the billing key is dropped
normalizeTagsKeepEmpty(tags) ==
  [k \in {t \in DOMAIN tags : t # "billing"} |-> tags[k]]

\* normalizeTags: the entries whose key is not billing and whose value is
\* not empty
normalizeTags(tags) ==
  [k \in {t \in DOMAIN tags : ~(t = "billing" \/ tags[t] = "")} |-> tags[k]]

\* generateTagChange: the keys of old that new lacks or leaves empty are set
\* to "", then every key of new but billing is set to its value
generateTagChange(o, n) ==
  LET cleared == {k \in DOMAIN o : k \notin DOMAIN n \/ n[k] = ""}
      copied  == {k \in DOMAIN n : k # "billing"} IN
  [k \in cleared \cup copied |-> IF k \in copied THEN n[k] ELSE ""]

\* ------------------------------------------- the fields a read projects
\* groups and tags GetDetails may report for a host
RemoteFields ==
  {[SecurityGroups |-> {"base"}, LdapGroups |-> {},
    Tags |-> [k \in {"billing"} |-> "x"]],
   [SecurityGroups |-> {"base", "g1"}, LdapGroups |-> {"base", "g1"},
    Tags |-> [k \in TagKeys |-> CASE k = "billing" -> "x" [] k = "env" -> "prod"
                                   [] OTHER -> ""]],
   [SecurityGroups |-> {"g1"}, LdapGroups |-> {"g1"}, Tags |-> EmptyTags],
   [SecurityGroups |-> {"base", "g1"}, LdapGroups |-> {"g1"},
    Tags |-> [k \in {"billing", "env"} |-> IF k = "env" THEN "prod" ELSE ""]]}

NoFields == [SecurityGroups |-> {}, LdapGroups |-> {}, Tags |-> EmptyTags]

\* groups and tags of a host create has just provisioned
CreatedFields == {[SecurityGroups |-> {"base"}, LdapGroups |-> {},
                   Tags |-> [k \in {"billing"} |-> "x"]]}

\* variant: the base group is removed from the user groups too
projectFieldsFilterBoth(ch) ==
  [security_groups |-> difference(ch.SecurityGroups, {"base"}),
   user_groups |-> difference(ch.LdapGroups, {"base"}),
   tags |-> normalizeTags(ch.Tags)]

\* the d.Set calls of the read handler for groups and tags
projectFields(ch) ==
  [security_groups |-> difference(ch.SecurityGroups, {"base"}),
   user_groups |-> ch.LdapGroups,
   tags |-> normalizeTags(ch.Tags)]

\* the stored groups and tags before any read
NoStored == [security_groups |-> {}, user_groups |-> {}, tags |-> EmptyTags]
StoredBefore == [security_groups |-> {"g0"}, user_groups |-> {"g0"},
                 tags |-> [k \in {"old"} |-> "x"]]

NoState == [err |-> FALSE, status |-> NoResp, state |-> ""]
NoRead == [stateAsked |-> FALSE, sr |-> NoState, detailsAsked |-> FALSE,
           drErr |-> FALSE, projected |-> FALSE, remote |-> NoFields]

\* variant: only the failure states count as not succeeded
TaintedOnlyFailed(state) == state \in failStates

\* the deployment state read is not succeeded
Tainted(state) == state # "succeeded"

\* variant: a failed details lookup clears the ID
detailsFailedClears(b) == [b EXCEPT !.id = ""]

\* GetDetails returned an error
detailsFailed(b) == [b EXCEPT !.diags = FromErr("GetDetails", "remote")]

\* result of the read handler: the id and name it leaves, its diagnostics,
\* the remote calls it issued and the InstanceID it fetched
resourceContainerHostRead(nm, curId, list, clientOK, gaErr, sr, dr) ==
  LET base == [id |-> curId, name |-> nm, diags |-> << >>, calls |-> << >>,
               fetched |-> "", projected |-> FALSE] IN
  IF ~clientOK THEN [base EXCEPT !.diags = FromErr("CartelClient", "config")]
  ELSE IF nm = "" /\ gaErr
  THEN [base EXCEPT !.diags = FromErr("cartel.GetAllInstances", "remote"),
                    !.calls = <<Call("GetAllInstances", "")>>]
  ELSE
    LET found == IF nm = ""
                 THEN {i \in 1..Len(list) : list[i].InstanceID = curId} ELSE {}
        tagName == IF nm # "" THEN nm
                   ELSE IF found = {} THEN ""
                   ELSE list[CHOOSE i \in found : \A j \in found : i <= j].NameTag
        c1 == (IF nm = "" THEN <<Call("GetAllInstances", "")>> ELSE << >>)
              \o <<Call("GetDeploymentState", tagName)>>
        b1 == [base EXCEPT !.name = tagName, !.calls = c1]
    IN
    IF sr.err
    THEN IF sr.status = StatusBadRequest
         THEN [b1 EXCEPT !.id = ""]
         ELSE [b1 EXCEPT !.diags = FromErr("GetDeploymentState", "remote")]
    ELSE IF Tainted(sr.state) THEN [b1 EXCEPT !.id = ""]
    ELSE
      LET b2 == [b1 EXCEPT !.calls = Append(@, Call("GetDetails", tagName))] IN
      IF dr.err THEN detailsFailed(b2)
      ELSE IF ~IDMatches(dr.details, curId)
      THEN [b2 EXCEPT !.diags = FromErr("read", ErrInstanceIDMismatch),
                      !.fetched = dr.details.InstanceID]
      ELSE [b2 EXCEPT !.fetched = dr.details.InstanceID, !.projected = TRUE]

\* what a read asked the remote side and got back
ReadTrace(r, sr, dr, rf) ==
  LET sAsked == \E i \in 1..Len(r.calls) : r.calls[i].op = "GetDeploymentState"
      dAsked == \E i \in 1..Len(r.calls) : r.calls[i].op = "GetDetails" IN
  [stateAsked |-> sAsked, sr |-> IF sAsked THEN sr ELSE NoState,
   detailsAsked |-> dAsked, drErr |-> dAsked /\ dr.err,
   projected |-> r.projected,
   remote |-> IF r.projected THEN rf ELSE NoFields]

\* ------------------------------------------------------------------ Init
Init ==
  /\ pc = "init"
  /\ name = "h1"
  /\ id = ""
  /\ user \in {"", "u"}
  /\ privateKey \in {"", "k"}
  /\ commands \in CommandLists
  \* without commands nothing looks at the credentials: both set or none
  /\ (commands = << >>) => ((user = "") <=> (privateKey = ""))
  /\ files \in {WithDestinations(fl) : fl \in FileLists}
  /\ timeout \in {0, MaxTimeout}
  /\ fs \in [Sources \ {""} -> FsKinds]
  /\ fsChanged = FALSE
  /\ instances \in PreExisting
  /\ calls = << >>
  /\ createRes = NoCreate
  /\ recovered = Nil
  /\ createFiles = << >>
  /\ instanceID = ""
  /\ ipAddress = ""
  /\ seen = << >>
  /\ polls = 0
  /\ elapsed = 0
  /\ waitErr = ""
  /\ sshLog = << >>
  /\ cmdIdx = 0
  /\ diags = << >>
  /\ ops = 0
  /\ lastOp = ""
  /\ fetchedID = ""
  /\ writeErrs = {}
  /\ lastRead = NoRead
  /\ stored = NoStored
  /\ fn = ""
  /\ args = << >>
  /\ out = << >>
  /\ applied = FALSE
  /\ svcFailed = << >>

\* ------------------------------- resourceContainerHostCreate, validation
\* variant: the private key is not checked
createValidationNoKey(clientOK, cf, cc, usr, key) ==
  IF ~clientOK THEN FromErr("CartelClient", "config")
  ELSE IF Len(cf.diags) > 0 THEN cf.diags
  ELSE IF Len(cc.diags) > 0 THEN cc.diags
  ELSE IF Len(cc.commands) > 0 /\ usr = ""
  THEN FromErr("user must be set", "validation")
  ELSE << >>

\* variant: the file diagnostics do not stop the create
createValidationIgnoreFiles(clientOK, cf, cc, usr, key) ==
  IF ~clientOK THEN FromErr("CartelClient", "config")
  ELSE IF Len(cc.diags) > 0 THEN cc.diags
  ELSE IF Len(cc.commands) > 0 /\ usr = ""
  THEN FromErr("user must be set", "validation")
  ELSE IF Len(cc.commands) > 0 /\ key = ""
  THEN FromErr("privateKey must be set", "validation")
  ELSE << >>

\* the diagnostics create returns before it calls the remote (none: go on)
createValidation(clientOK, cf, cc, usr, key) ==
  IF ~clientOK THEN FromErr("CartelClient", "config")
  ELSE IF Len(cf.diags) > 0 THEN cf.diags
  ELSE IF Len(cc.diags) > 0 THEN cc.diags
  ELSE IF Len(cc.commands) > 0 /\ usr = ""
  THEN FromErr("user must be set", "validation")
  ELSE IF Len(cc.commands) > 0 /\ key = ""
  THEN FromErr("privateKey must be set", "validation")
  ELSE << >>

CreateValidate ==
  /\ pc = "init"
  /\ \E clientOK \in BOOLEAN :
       LET cf == collectFilesToCreate(files, fs)
           cc == collectCommands(commands)
           bad == createValidation(clientOK, cf, cc, user, privateKey)
       IN /\ diags' = bad
          /\ pc' = IF bad = << >> THEN "call" ELSE "done"
          /\ createFiles' = IF clientOK THEN cf.files ELSE << >>
  /\ lastOp' = "create"
  /\ UNCHANGED <<writeErrs, lastRead, stored>>
  /\ UNCHANGED otherVars
  /\ UNCHANGED <<name, id, user, privateKey, commands, files, timeout, fs,
                 fsChanged, instances, calls, createRes, recovered, instanceID,
                 ipAddress, seen, polls, elapsed, waitErr, sshLog, cmdIdx, ops,
                 fetchedID>>

\* --------- resourceContainerHostCreate, the creation call and recovery
CreateCall ==
  /\ pc = "call"
  /\ \E r \in CreateResponses, created \in BOOLEAN, gaErr \in BOOLEAN, dOK \in BOOLEAN :
       LET after   == AfterCreate(instances, name, r, created)
           details == findInstanceByName(after, name, gaErr)
           destroy == r.err /\ (r.status = NoResp \/ ~Recoverable(r) \/ details = Nil)
           lookup  == r.err /\ r.status # NoResp /\ Recoverable(r)
       IN /\ ~r.err => ~NameInUse(instances, name)
          /\ createRes' = r
          /\ recovered' = IF lookup THEN details ELSE Nil
          /\ calls' = calls \o <<Call("Create", name)>>
                        \o (IF lookup THEN <<Call("GetAllInstances", "")>> ELSE << >>)
                        \o (IF destroy THEN <<Call("Destroy", name)>> ELSE << >>)
          /\ instances' = IF destroy THEN Destroyed(after, name, dOK) ELSE after
          /\ IF destroy
             THEN /\ diags' = FromErr("create error", "createErr")
                  /\ pc' = "done"
                  /\ UNCHANGED <<id, instanceID, ipAddress>>
             ELSE /\ instanceID' = IF r.err THEN details.InstanceID ELSE NewHost(name).InstanceID
                  /\ ipAddress' = IF r.err THEN details.PrivateAddress ELSE NewHost(name).PrivateAddress
                  /\ id' = instanceID'
                  /\ pc' = "wait"
                  /\ UNCHANGED diags
  /\ UNCHANGED <<writeErrs, lastRead, stored>>
  /\ UNCHANGED otherVars
  /\ UNCHANGED <<name, user, privateKey, commands, files, timeout, fs, fsChanged,
                 createFiles, seen, polls, elapsed, waitErr, sshLog, cmdIdx,
                 ops, lastOp, fetchedID>>

\* variant: the failed wait reports but leaves the host behind
WaitFailedNoDestroy(cause, dOK, issued) ==
  /\ waitErr' = cause
  /\ calls' = issued
  /\ UNCHANGED instances
  /\ diags' = FromErr("error waiting for instance", cause)
  /\ pc' = "done"

\* the wait ended with an error: destroy the host and report
WaitFailed(cause, dOK, issued) ==
  /\ waitErr' = cause
  /\ calls' = Append(issued, Call("Destroy", name))
  /\ instances' = Destroyed(instances, name, dOK)
  /\ diags' = FromErr("error waiting for instance", cause)
  /\ pc' = "done"

\* ---------- resourceContainerHostCreate, one refresh of the wait loop
WaitPoll ==
  /\ pc = "wait"
  /\ ~TimedOut(elapsed, timeout)
  /\ elapsed < MaxTimeout
  /\ \E r \in StateResponses, dOK \in BOOLEAN :
       LET rf     == InstanceStateRefreshFunc(r, failStates)
           step   == WaitStep(rf)
           issued == Append(calls, Call("GetDeploymentState", name))
       IN /\ seen' = Append(seen, rf.state)
          /\ polls' = polls + 1
          /\ elapsed' = elapsed + 1
          /\ IF step = "done"
             THEN /\ pc' = "copy"
                  /\ calls' = issued
                  /\ UNCHANGED <<waitErr, instances, diags>>
             ELSE IF step = "continue"
             THEN /\ calls' = issued
                  /\ UNCHANGED <<pc, waitErr, instances, diags>>
             ELSE WaitFailed(step, dOK, issued)
  /\ UNCHANGED <<writeErrs, lastRead, stored>>
  /\ UNCHANGED otherVars
  /\ UNCHANGED <<name, id, user, privateKey, commands, files, timeout, fs,
                 fsChanged, createRes, recovered, createFiles, instanceID, ipAddress,
                 sshLog, cmdIdx, ops, lastOp, fetchedID>>

\* ------------- resourceContainerHostCreate, the create timeout elapses
WaitTimeout ==
  /\ pc = "wait"
  /\ TimedOut(elapsed, timeout)
  /\ \E dOK \in BOOLEAN : WaitFailed("timeout", dOK, calls)
  /\ UNCHANGED <<writeErrs, lastRead, stored>>
  /\ UNCHANGED otherVars
  /\ UNCHANGED <<name, id, user, privateKey, commands, files, timeout, fs,
                 fsChanged, createRes, recovered, createFiles, instanceID, ipAddress,
                 seen, polls, elapsed, sshLog, cmdIdx, ops, lastOp, fetchedID>>

\* variant: a copy error is an error diagnostic and create returns
CopyFilesAbort ==
  /\ pc = "copy"
  /\ LET r == copyFiles(createFiles, fs) IN
       /\ sshLog' = sshLog \o [i \in 1..Len(r.writes) |-> [op |-> "write", arg |-> r.writes[i], ok |-> TRUE]]
       /\ writeErrs' \in {{}} \cup {{r.writes[i]} : i \in 1..Len(r.writes)}
       /\ diags' = IF r.err # ""
                   THEN Append(diags, Diag("error", "failed to copy all files", r.err, ""))
                   ELSE diags
       /\ pc' = IF r.err # "" THEN "done" ELSE "run"
  /\ cmdIdx' = 1
  /\ UNCHANGED <<lastRead, stored>>
  /\ UNCHANGED otherVars
  /\ UNCHANGED <<name, id, user, privateKey, commands, files, timeout, fs,
                 fsChanged, instances, calls, createRes, recovered, createFiles, instanceID,
                 ipAddress, seen, polls, elapsed, waitErr, ops, lastOp, fetchedID>>

\* -------------------- resourceContainerHostCreate, copying the files
CopyFiles ==
  /\ pc = "copy"
  /\ LET r == copyFiles(createFiles, fs) IN
       /\ sshLog' = sshLog \o [i \in 1..Len(r.writes) |-> [op |-> "write", arg |-> r.writes[i], ok |-> TRUE]]
       \* the error of ssh.WriteFile is discarded; at most one write fails
       /\ writeErrs' \in {{}} \cup {{r.writes[i]} : i \in 1..Len(r.writes)}
       /\ diags' = IF r.err # ""
                   THEN Append(diags, Diag("warning", "failed to copy all files", r.err, ""))
                   ELSE diags
  /\ cmdIdx' = 1
  /\ pc' = "run"
  /\ UNCHANGED <<lastRead, stored>>
  /\ UNCHANGED otherVars
  /\ UNCHANGED <<name, id, user, privateKey, commands, files, timeout, fs,
                 fsChanged, instances, calls, createRes, recovered, createFiles, instanceID,
                 ipAddress, seen, polls, elapsed, waitErr, ops, lastOp, fetchedID>>

\* variant: a failed command is reported but the loop goes on
RunCommandContinue ==
  /\ pc = "run"
  /\ cmdIdx <= Len(commands)
  /\ \E ok \in BOOLEAN :
       /\ sshLog' = Append(sshLog, [op |-> "run", arg |-> commands[cmdIdx], ok |-> ok])
       /\ diags' = IF ok THEN diags
                   ELSE Append(diags, Diag("error", "command", "ssh", commands[cmdIdx]))
       /\ cmdIdx' = cmdIdx + 1
       /\ UNCHANGED pc
  /\ UNCHANGED <<writeErrs, lastRead, stored>>
  /\ UNCHANGED otherVars
  /\ UNCHANGED <<name, id, user, privateKey, commands, files, timeout, fs,
                 fsChanged, instances, calls, createRes, recovered, createFiles,
                 instanceID, ipAddress, seen, polls, elapsed, waitErr, ops,
                 lastOp, fetchedID>>

\* ----------- resourceContainerHostCreate, one iteration of the command loop
RunCommand ==
  /\ pc = "run"
  /\ cmdIdx <= Len(commands)
  /\ \E ok \in BOOLEAN :
       /\ sshLog' = Append(sshLog, [op |-> "run", arg |-> commands[cmdIdx], ok |-> ok])
       /\ IF ok
          THEN /\ cmdIdx' = cmdIdx + 1
               /\ UNCHANGED <<pc, diags>>
          ELSE /\ diags' = Append(diags, Diag("error", "command", "ssh", commands[cmdIdx]))
               /\ pc' = "done"
               /\ UNCHANGED cmdIdx
  /\ UNCHANGED <<writeErrs, lastRead, stored>>
  /\ UNCHANGED otherVars
  /\ UNCHANGED <<name, id, user, privateKey, commands, files, timeout, fs,
                 fsChanged, instances, calls, createRes, recovered, createFiles, instanceID,
                 ipAddress, seen, polls, elapsed, waitErr, ops, lastOp, fetchedID>>

\* ---------------- resourceContainerHostCreate, the final read
CreateRead ==
  /\ pc = "run"
  /\ cmdIdx > Len(commands)
  /\ \E clientOK \in BOOLEAN, sr \in StateResponses, dr \in DetailsResponses(instances, name),
        rf \in CreatedFields :
       LET r == resourceContainerHostRead(name, id, instances, clientOK, FALSE, sr, dr) IN
         /\ id' = r.id
         /\ name' = r.name
         /\ diags' = diags \o r.diags
         /\ calls' = calls \o r.calls
         /\ fetchedID' = r.fetched
         /\ stored' = IF r.projected THEN projectFields(rf) ELSE stored
  /\ pc' = "done"
  /\ UNCHANGED <<writeErrs, lastRead>>
  /\ UNCHANGED otherVars
  /\ UNCHANGED <<user, privateKey, commands, files, timeout, fs, fsChanged,
                 instances, createRes, recovered, createFiles, instanceID, ipAddress, seen,
                 polls, elapsed, waitErr, sshLog, cmdIdx, ops, lastOp>>

\* the local file system has changed while the host was being provisioned
FsChange ==
  /\ pc = "copy"
  /\ ~fsChanged
  /\ \E f \in [Sources \ {""} -> FsKinds] : f # fs /\ fs' = f
  /\ fsChanged' = TRUE
  /\ UNCHANGED <<writeErrs, lastRead, stored>>
  /\ UNCHANGED otherVars
  /\ UNCHANGED <<pc, name, id, user, privateKey, commands, files, timeout,
                 instances, calls, createRes, recovered, createFiles, instanceID, ipAddress,
                 seen, polls, elapsed, waitErr, sshLog, cmdIdx, diags, ops,
                 lastOp, fetchedID>>

CreateStep ==
  \/ CreateValidate
  \/ CreateCall
  \/ WaitPoll
  \/ WaitTimeout
  \/ CopyFiles
  \/ RunCommand
  \/ CreateRead

Next == CreateStep \/ FsChange

Spec == Init /\ [][Next]_vars

\* the handler is sequential code: it keeps running until it returns
FairSpec == Spec /\ WF_vars(CreateStep)

\* group sets a plan moves between
GroupSets == {{}, {"g1"}, {"g2"}}

\* what the plan changes: tags, user groups, security groups, protection
\* the changes of one group set: none, an addition, a removal, both
GroupChanges == {<<{}, {}>>, <<{}, {"g1"}>>, <<{"g1"}, {}>>, <<{"g1"}, {"g2"}>>}

Plans ==
  {p \in [tags : BOOLEAN, oldU : GroupSets, newU : GroupSets,
          oldS : GroupSets, newS : GroupSets, protect : BOOLEAN] :
     /\ <<p.oldU, p.newU>> \in GroupChanges
     /\ <<p.oldS, p.newS>> \in GroupChanges}

\* the plan of an update that returns before it looks at the changes
NoPlan == [tags |-> FALSE, oldU |-> {}, newU |-> {}, oldS |-> {}, newS |-> {},
           protect |-> FALSE]

\* variant: the arguments of difference are exchanged
toAddSwapped(old, new) == difference(old, new)

\* toAdd := difference(newEntries, old)
toAdd(old, new) == difference(new, old)

\* variant: the arguments of difference are exchanged
toRemoveSwapped(old, new) == difference(new, old)

\* toRemove := difference(old, newEntries)
toRemove(old, new) == difference(old, new)

Step(op, groups) == [op |-> op, groups |-> groups]

\* the mutating steps update issues for a plan when none of them fails,
\* each with the groups it hands to the client
UpdateSteps(plan) ==
     (IF plan.tags THEN <<Step("AddTags", {})>> ELSE << >>)
  \o (IF plan.oldU # plan.newU /\ toAdd(plan.oldU, plan.newU) # {}
      THEN <<Step("AddUserGroups", toAdd(plan.oldU, plan.newU))>> ELSE << >>)
  \o (IF plan.oldU # plan.newU /\ toRemove(plan.oldU, plan.newU) # {}
      THEN <<Step("RemoveUserGroups", toRemove(plan.oldU, plan.newU))>> ELSE << >>)
  \o (IF plan.oldS # plan.newS /\ toAdd(plan.oldS, plan.newS) # {}
      THEN <<Step("AddSecurityGroups", toAdd(plan.oldS, plan.newS))>> ELSE << >>)
  \o (IF plan.oldS # plan.newS /\ toRemove(plan.oldS, plan.newS) # {}
      THEN <<Step("RemoveSecurityGroups", toRemove(plan.oldS, plan.newS))>> ELSE << >>)
  \o (IF plan.protect THEN <<Step("SetProtection", {})>> ELSE << >>)

\* the mutating calls update issues for a plan when none of them fails
UpdateCalls(nm, plan) ==
  LET steps == UpdateSteps(plan) IN
  [i \in 1..Len(steps) |-> Call(steps[i].op, nm)]

\* the user and security groups of the host after a step has succeeded
applyStep(rem, st) ==
  IF st.op = "AddUserGroups" THEN [rem EXCEPT !.U = @ \cup st.groups]
  ELSE IF st.op = "RemoveUserGroups" THEN [rem EXCEPT !.U = @ \ st.groups]
  ELSE IF st.op = "AddSecurityGroups" THEN [rem EXCEPT !.S = @ \cup st.groups]
  ELSE IF st.op = "RemoveSecurityGroups" THEN [rem EXCEPT !.S = @ \ st.groups]
  ELSE rem

RECURSIVE applySteps(_, _, _)
applySteps(rem, steps, n) ==
  IF n = 0 THEN rem ELSE applyStep(applySteps(rem, steps, n - 1), steps[n])

\* ----------------------------------------- resourceContainerHostUpdate
\* failAt: the mutating call that fails (0: none)
resourceContainerHostUpdate(nm, curId, clientOK, dr, plan, failAt) ==
  LET base == [id |-> curId, diags |-> << >>, calls |-> << >>, fetched |-> "",
               steps |-> << >>, succeeded |-> 0] IN
  IF ~clientOK THEN [base EXCEPT !.diags = FromErr("CartelClient", "config")]
  ELSE
    LET b1 == [base EXCEPT !.calls = <<Call("GetDetails", nm)>>] IN
    IF dr.err THEN [b1 EXCEPT !.diags = FromErr("GetDetails", "remote")]
    ELSE IF ~IDMatches(dr.details, curId)
    THEN [b1 EXCEPT !.diags = FromErr("update", ErrInstanceIDMismatch),
                    !.fetched = dr.details.InstanceID]
    ELSE
      LET planned == UpdateCalls(nm, plan)
          b2 == [b1 EXCEPT !.fetched = dr.details.InstanceID] IN
      IF failAt = 0 \/ failAt > Len(planned)
      THEN [b2 EXCEPT !.calls = @ \o planned,
                      !.steps = UpdateSteps(plan),
                      !.succeeded = Len(planned)]
      ELSE [b2 EXCEPT !.calls = @ \o SubSeq(planned, 1, failAt),
                      !.steps = SubSeq(UpdateSteps(plan), 1, failAt),
                      !.succeeded = failAt - 1,
                      !.diags = FromErr(planned[failAt].op, "remote")]

\* ----------------------------------------- resourceContainerHostDelete
\* dErr: client.Destroy failed
resourceContainerHostDelete(nm, curId, clientOK, dr, dErr) ==
  LET base == [id |-> curId, diags |-> << >>, calls |-> << >>, fetched |-> "",
               destroyed |-> FALSE] IN
  IF ~clientOK THEN [base EXCEPT !.diags = FromErr("CartelClient", "config")]
  ELSE
    LET b1 == [base EXCEPT !.calls = <<Call("GetDetails", nm)>>] IN
    IF dr.err THEN [b1 EXCEPT !.diags = FromErr("GetDetails", "remote")]
    ELSE IF ~IDMatches(dr.details, curId)
    THEN [b1 EXCEPT !.diags = FromErr("delete", ErrInstanceIDMismatch),
                    !.fetched = dr.details.InstanceID]
    ELSE
      LET b2 == [b1 EXCEPT !.fetched = dr.details.InstanceID,
                           !.calls = Append(@, Call("Destroy", nm))] IN
      IF dErr THEN [b2 EXCEPT !.diags = FromErr("Destroy", "remote")]
      ELSE [b2 EXCEPT !.id = "", !.destroyed = TRUE]

\* an update of host h1 that reaches its plan: the plan and the step that
\* fails (0: none)
UpdateArgs ==
  {a \in [plan : Plans, failAt : 0..6] : a.failAt <= Len(UpdateSteps(a.plan))}

\* ------------------------------- the handlers on a stored host record
StoredIDs == {"i-1", "i-2", "i-new"}

InitOps ==
  /\ pc = "idle"
  /\ name \in {"h1", ""}
  /\ id \in StoredIDs
  /\ user = ""
  /\ privateKey = ""
  /\ commands = << >>
  /\ files = << >>
  /\ timeout = 0
  /\ fs = [s \in Sources \ {""} |-> "ok"]
  /\ fsChanged = FALSE
  /\ instances \in PreExisting
  /\ calls = << >>
  /\ createRes = NoCreate
  /\ recovered = Nil
  /\ createFiles = << >>
  /\ instanceID = ""
  /\ ipAddress = ""
  /\ seen = << >>
  /\ polls = 0
  /\ elapsed = 0
  /\ waitErr = ""
  /\ sshLog = << >>
  /\ cmdIdx = 0
  /\ diags = << >>
  /\ ops = 0
  /\ lastOp = ""
  /\ fetchedID = ""
  /\ writeErrs = {}
  /\ lastRead = NoRead
  /\ stored = StoredBefore
  /\ fn = ""
  /\ args = << >>
  /\ out = << >>
  /\ applied = FALSE
  /\ svcFailed = << >>

OpsUnchanged ==
  UNCHANGED <<writeErrs, fn, args, out, applied, svcFailed, pc, user, privateKey, commands, files, timeout, fs, fsChanged,
              createRes, recovered, createFiles, instanceID, ipAddress, seen, polls,
              elapsed, waitErr, sshLog, cmdIdx>>

OpRead ==
  /\ pc = "idle" /\ ops < MaxOps /\ id # ""
  /\ \E clientOK \in BOOLEAN, gaErr \in BOOLEAN, sr \in StateResponses :
       \* the details are those of the name the import lookup resolved
       LET nm == resourceContainerHostRead(name, id, instances, clientOK, gaErr, sr,
                                           [err |-> TRUE, details |-> Nil]).name IN
       \E dr \in DetailsResponses(instances, nm) :
         LET r == resourceContainerHostRead(name, id, instances, clientOK, gaErr, sr, dr) IN
         \E rf \in (IF r.projected THEN RemoteFields ELSE {NoFields}) :
           /\ id' = r.id
           /\ name' = r.name
           /\ diags' = r.diags
           /\ calls' = r.calls
           /\ fetchedID' = r.fetched
           /\ lastRead' = ReadTrace(r, sr, dr, rf)
           /\ stored' = IF r.projected THEN projectFields(rf) ELSE stored
  /\ ops' = ops + 1
  /\ lastOp' = "read"
  /\ UNCHANGED instances
  /\ OpsUnchanged

OpUpdate ==
  /\ pc = "idle" /\ ops < MaxOps /\ id # ""
  /\ \E clientOK \in BOOLEAN, dr \in DetailsResponses(instances, name) :
     \E plan \in (IF clientOK /\ ~dr.err /\ IDMatches(dr.details, id)
                   THEN Plans ELSE {NoPlan}) :
     \E failAt \in 0..Len(UpdateCalls(name, plan)) :
       LET r == resourceContainerHostUpdate(name, id, clientOK, dr, plan, failAt) IN
         /\ id' = r.id
         /\ diags' = r.diags
         /\ calls' = r.calls
         /\ fetchedID' = r.fetched
  /\ ops' = ops + 1
  /\ lastOp' = "update"
  /\ UNCHANGED <<name, instances>>
  /\ UNCHANGED <<lastRead, stored>>
  /\ OpsUnchanged

OpDelete ==
  /\ pc = "idle" /\ ops < MaxOps /\ id # ""
  /\ \E clientOK \in BOOLEAN, dr \in DetailsResponses(instances, name), dErr \in BOOLEAN :
       LET r == resourceContainerHostDelete(name, id, clientOK, dr, dErr) IN
         /\ id' = r.id
         /\ diags' = r.diags
         /\ calls' = r.calls
         /\ fetchedID' = r.fetched
         /\ instances' = IF r.destroyed THEN withoutName(instances, name) ELSE instances
  /\ ops' = ops + 1
  /\ lastOp' = "delete"
  /\ UNCHANGED name
  /\ UNCHANGED <<lastRead, stored>>
  /\ OpsUnchanged

NextOps == OpRead \/ OpUpdate \/ OpDelete

SpecOps == InitOps /\ [][NextOps]_vars

\* ===================================================================
\* The helper functions on their own: Init draws the arguments, one action
\* per function applies it.
\* ===================================================================
\* no container host is being handled
NoHostExceptID ==
  /\ name = "" /\ user = "" /\ privateKey = ""
  /\ commands = << >> /\ files = << >> /\ timeout = 0
  /\ fs = [s \in Sources \ {""} |-> "ok"] /\ fsChanged = FALSE
  /\ instances = << >> /\ calls = << >> /\ createRes = NoCreate
  /\ recovered = Nil /\ createFiles = << >> /\ instanceID = ""
  /\ ipAddress = "" /\ seen = << >> /\ polls = 0 /\ elapsed = 0
  /\ waitErr = "" /\ sshLog = << >> /\ cmdIdx = 0 /\ diags = << >>
  /\ ops = 0 /\ lastOp = "" /\ fetchedID = "" /\ writeErrs = {}
  /\ lastRead = NoRead /\ stored = NoStored

NoHost == id = "" /\ NoHostExceptID

hostVars == <<name, id, user, privateKey, commands, files, timeout, fs,
              fsChanged, instances, calls, createRes, recovered, createFiles,
              instanceID, ipAddress, seen, polls, elapsed, waitErr, sshLog,
              cmdIdx, diags, ops, lastOp, fetchedID, writeErrs, lastRead, stored>>

\* elements of the string sets handed to difference
SetElems == {"a", "b", "c", "d"}

DifferenceArgs == [old : SUBSET SetElems, new : SUBSET SetElems]
NormalizeArgs == [tags : TagMaps]
TagChangeArgs == [old : TagMaps, new : TagMaps]

\* ------------------------------------------- the options of client.Create
\* subnet_type conflicts with subnet: a configuration sets at most one
CreateInputs ==
  {i \in [subnet_type : {"", "public", "private"}, subnet : {"", "subnet-1"},
          protect : BOOLEAN, encrypt_volumes : BOOLEAN] :
     ~(i.subnet_type # "" /\ i.subnet # "")}

createOptions(in) ==
  LET subnetType == IF in.subnet_type = "" THEN "private" ELSE in.subnet_type IN
  [SubnetType |-> subnetType, InSubnet |-> in.subnet,
   Protect |-> in.protect, VolumeEncryption |-> in.encrypt_volumes]

\* --------------------------------------------------------- validateTags
TagLimit == 8
ValueLimit == 255

\* a string of n characters
RECURSIVE Rep(_)
Rep(n) ==
  IF n = 0 THEN ""
  ELSE LET h == Rep(n \div 2) IN
       IF n % 2 = 0 THEN h \o h ELSE h \o h \o "v"

TagName(i) == CASE i = 1 -> "k1" [] i = 2 -> "k2" [] i = 3 -> "k3" [] i = 4 -> "k4"
                [] i = 5 -> "k5" [] i = 6 -> "k6" [] i = 7 -> "k7" [] i = 8 -> "k8"
                [] i = 9 -> "k9" [] OTHER -> "k10"

SpecialKeys == {"name", "Name", "NAME", "billing"}
TagLengths == {0, 1, ValueLimit, ValueLimit + 1}

\* n plain keys and at most one special key; one value has the length len
TagsOf(n, special, len) ==
  LET keys == {TagName(i) : i \in 1..n} \cup (IF special = "" THEN {} ELSE {special})
      marked == IF special # "" THEN special ELSE "k1" IN
  [k \in keys |-> IF k = marked THEN Rep(len) ELSE "x"]

ValidateArgs ==
  {[tagsMap |-> TagsOf(n, special, len)] :
     n \in 0..MaxTags, special \in SpecialKeys \cup {""}, len \in TagLengths}

\* strings.ToLower on the keys in use
ToLower(k) == IF k \in {"Name", "NAME"} THEN "name" ELSE k
EqualFold(a, b) == ToLower(a) = ToLower(b)

\* variant: a map of 8 entries is already too large
validateTagsAtLimit(tagsMap) ==
  IF Cardinality(DOMAIN tagsMap) >= TagLimit
  THEN {Diag("error", "maximum of 8 tags are supported", "count", "")}
  ELSE IF \E k \in DOMAIN tagsMap : EqualFold(k, "name")
  THEN {Diag("error", "tag is reserved by the Cartel API", "reserved", "name")}
  ELSE {Diag("error", "", "too long", k) :
          k \in {t \in DOMAIN tagsMap : Len(tagsMap[t]) > ValueLimit}}

\* the diagnostics of validateTags, as a set: the map is ranged over in no
\* fixed order
validateTags(tagsMap) ==
  IF Cardinality(DOMAIN tagsMap) > TagLimit
  THEN {Diag("error", "maximum of 8 tags are supported", "count", "")}
  ELSE IF \E k \in DOMAIN tagsMap : EqualFold(k, "name")
  THEN {Diag("error", "tag is reserved by the Cartel API", "reserved", "name")}
  ELSE {Diag("error", "", "too long", k) :
          k \in {t \in DOMAIN tagsMap : Len(tagsMap[t]) > ValueLimit}}

\* ---------------------------------------------- the file-entry functions
CollectArgs ==
  [files : {WithDestinations(fl) : fl \in FileLists},
   fs : [Sources \ {""} -> FsKinds]]

\* copyFiles is handed entries collectFilesToCreate accepted
CopyArgs ==
  {a \in CollectArgs :
     \A i \in 1..Len(a.files) : (a.files[i].Source = "") # (a.files[i].Content = "")}

InitPure ==
  /\ pc = "pure"
  /\ NoHost
  /\ svcFailed = << >>
  /\ applied = FALSE
  /\ out = << >>
  /\ \/ fn = "difference" /\ args \in DifferenceArgs
     \/ fn = "normalizeTags" /\ args \in NormalizeArgs
     \/ fn = "createOptions" /\ args \in CreateInputs
     \/ fn = "validateTags" /\ args \in ValidateArgs
     \/ fn = "collectFilesToCreate" /\ args \in CollectArgs
     \/ fn = "copyFiles" /\ args \in CopyArgs
     \/ fn = "resourceContainerHostUpdate" /\ args \in UpdateArgs
     \/ fn = "generateTagChange" /\ args \in TagChangeArgs

\* the two difference calls of an update
ApplyDifference ==
  /\ fn = "difference" /\ ~applied
  /\ out' = [toAdd |-> toAdd(args.old, args.new),
             toRemove |-> toRemove(args.old, args.new)]
  /\ applied' = TRUE
  /\ UNCHANGED <<pc, fn, args, svcFailed>>
  /\ UNCHANGED hostVars

\* normalizeTags, and normalizeTags again on its result
ApplyNormalizeTags ==
  /\ fn = "normalizeTags" /\ ~applied
  /\ out' = [tags |-> normalizeTags(args.tags),
             again |-> normalizeTags(normalizeTags(args.tags))]
  /\ applied' = TRUE
  /\ UNCHANGED <<pc, fn, args, svcFailed>>
  /\ UNCHANGED hostVars

\* the options resourceContainerHostCreate hands to client.Create
ApplyCreateOptions ==
  /\ fn = "createOptions" /\ ~applied
  /\ out' = createOptions(args)
  /\ applied' = TRUE
  /\ UNCHANGED <<pc, fn, args, svcFailed>>
  /\ UNCHANGED hostVars

ApplyValidateTags ==
  /\ fn = "validateTags" /\ ~applied
  /\ out' = [diags |-> validateTags(args.tagsMap)]
  /\ applied' = TRUE
  /\ UNCHANGED <<pc, fn, args, svcFailed>>
  /\ UNCHANGED hostVars

ApplyCollectFiles ==
  /\ fn = "collectFilesToCreate" /\ ~applied
  /\ out' = collectFilesToCreate(args.files, args.fs)
  /\ applied' = TRUE
  /\ UNCHANGED <<pc, fn, args, svcFailed>>
  /\ UNCHANGED hostVars

ApplyCopyFiles ==
  /\ fn = "copyFiles" /\ ~applied
  /\ out' = copyFiles(args.files, args.fs)
  /\ applied' = TRUE
  /\ UNCHANGED <<pc, fn, args, svcFailed>>
  /\ UNCHANGED hostVars

\* an update whose identity checks pass, on a host whose groups are the old
\* sets of the plan; remote: the groups of the host when update returns
ApplyUpdate ==
  /\ fn = "resourceContainerHostUpdate" /\ ~applied
  /\ LET r == resourceContainerHostUpdate("h1", "i-1", TRUE,
                 [err |-> FALSE, details |-> SameHost], args.plan, args.failAt) IN
       out' = [steps |-> r.steps, diags |-> r.diags,
               remote |-> applySteps([U |-> args.plan.oldU, S |-> args.plan.oldS],
                                     r.steps, r.succeeded)]
  /\ applied' = TRUE
  /\ UNCHANGED <<pc, fn, args, svcFailed>>
  /\ UNCHANGED hostVars

\* change := generateTagChange(o, n)
ApplyTagChange ==
  /\ fn = "generateTagChange" /\ ~applied
  /\ out' = generateTagChange(args.old, args.new)
  /\ applied' = TRUE
  /\ UNCHANGED <<pc, fn, args, svcFailed>>
  /\ UNCHANGED hostVars

NextPure ==
  \/ ApplyDifference
  \/ ApplyNormalizeTags
  \/ ApplyCreateOptions
  \/ ApplyValidateTags
  \/ ApplyCollectFiles
  \/ ApplyCopyFiles
  \/ ApplyUpdate
  \/ ApplyTagChange

SpecPure == InitPure /\ [][NextPure]_vars

\* ===================================================================
\* The IAM service resource
\* ===================================================================
ScopeSets == SUBSET {"s1", "s2"}

\* the change of scopes and default_scopes an update is handed
ServicePlans == [oldS : ScopeSets, newS : ScopeSets, oldD : ScopeSets, newD : ScopeSets]

\* which of the four calls return an error
ServiceFailures == [removeS : BOOLEAN, addS : BOOLEAN, removeD : BOOLEAN, addD : BOOLEAN]

\* one d.HasChange block of the update: base is the result so far
scopesBlock(base, old, new, what, rmErr, addErr) ==
  IF old = new \/ HasError(base.diags) THEN base
  ELSE
    LET rm == Call("RemoveScopes", what)
        ad == Call("AddScopes", what)
        b1 == IF toRemove(old, new) = {} THEN base
              ELSE [base EXCEPT !.calls = Append(@, rm),
                                !.failed = IF rmErr THEN Append(@, rm) ELSE @,
                                !.diags = IF rmErr THEN FromErr("RemoveScopes", "remote") ELSE @]
    IN
    IF HasError(b1.diags) \/ toAdd(old, new) = {} THEN b1
    ELSE [b1 EXCEPT !.calls = Append(@, ad),
                    !.failed = IF addErr THEN Append(@, ad) ELSE @]

resourceIAMServiceUpdate(clientOK, plan, f) ==
  LET base == [diags |-> << >>, calls |-> << >>, failed |-> << >>] IN
  IF ~clientOK THEN [base EXCEPT !.diags = FromErr("IAMClient", "config")]
  ELSE
    scopesBlock(scopesBlock(base, plan.oldS, plan.newS, "scopes", f.removeS, f.addS),
                plan.oldD, plan.newD, "default_scopes", f.removeD, f.addD)

InitService ==
  /\ pc = "service"
  /\ NoHost
  /\ fn = "resourceIAMServiceUpdate"
  /\ args \in ServicePlans
  /\ out = << >>
  /\ applied = FALSE
  /\ svcFailed = << >>

ServiceUpdate ==
  /\ pc = "service" /\ ~applied
  /\ \E clientOK \in BOOLEAN, f \in ServiceFailures :
       LET r == resourceIAMServiceUpdate(clientOK, args, f) IN
         /\ diags' = r.diags
         /\ calls' = r.calls
         /\ svcFailed' = r.failed
  /\ applied' = TRUE
  /\ lastOp' = "update"
  /\ UNCHANGED <<pc, fn, args, out>>
  /\ UNCHANGED <<name, id, user, privateKey, commands, files, timeout, fs,
                 fsChanged, instances, createRes, recovered, createFiles,
                 instanceID, ipAddress, seen, polls, elapsed, waitErr, sshLog,
                 cmdIdx, ops, fetchedID, writeErrs, lastRead, stored>>

NextService == ServiceUpdate

SpecService == InitService /\ [][NextService]_vars

\* ===================================================================
\* The handlers of the other resources: IAM client, IAM service, PKI
\* certificate, S3 credentials policy, DICOM repository. Init draws the
\* handler, the stored ID and what the remote side answers; one action per
\* handler runs it.
\* ===================================================================
StatusNotFound == 404

\* a lookup answers with the object, or fails with no response at all
\* (status 0), with 404 or with 500
LookupResponses(F, none) ==
  {[err |-> FALSE, status |-> 200, fields |-> f] : f \in F}
  \cup {[err |-> TRUE, status |-> s, fields |-> none] : s \in {0, StatusNotFound, 500}}

\* variant: every failed lookup counts as not found
NotFoundAnyError(lk) == TRUE

\* resp != nil && resp.StatusCode == http.StatusNotFound
NotFound(lk) == lk.status = StatusNotFound

\* the fields of an IAM client and of an IAM service kept in state
ClientFields  == [name : {"a", "b"}, scopes : {{}, {"s1"}}]
ServiceFields == [name : {"a", "b"}, description : {"d1", "d2"}]
NoClient      == [name |-> "", scopes |-> {}]
NoService     == [name |-> "", description |-> ""]

ClientReadArgs ==
  [id : {"r-1"}, clientOK : BOOLEAN, stored : {[name |-> "a", scopes |-> {}]},
   lk : LookupResponses(ClientFields, NoClient)]

ServiceReadArgs ==
  [id : {"r-1"}, clientOK : BOOLEAN, stored : {[name |-> "a", description |-> "d1"]},
   lk : LookupResponses(ServiceFields, NoService)]

\* ----------------------------------------------- resourceIAMClientRead
resourceIAMClientRead(a) ==
  LET base == [id |-> a.id, fields |-> a.stored, diags |-> << >>, calls |-> << >>,
               trace |-> << >>] IN
  IF ~a.clientOK THEN [base EXCEPT !.diags = FromErr("IAMClient", "config")]
  ELSE
    LET b1 == [base EXCEPT !.calls = <<Call("GetClientByID", a.id)>>] IN
    IF a.lk.err
    THEN IF NotFound(a.lk) THEN [b1 EXCEPT !.id = ""]
         ELSE [b1 EXCEPT !.diags = FromErr("GetClientByID", "remote")]
    ELSE [b1 EXCEPT !.fields = a.lk.fields]

\* ---------------------------------------------- resourceIAMServiceRead
\* the description is not read back
resourceIAMServiceRead(a) ==
  LET base == [id |-> a.id, fields |-> a.stored, diags |-> << >>, calls |-> << >>,
               trace |-> << >>] IN
  IF ~a.clientOK THEN [base EXCEPT !.diags = FromErr("IAMClient", "config")]
  ELSE
    LET b1 == [base EXCEPT !.calls = <<Call("GetServiceByID", a.id)>>] IN
    IF a.lk.err
    THEN IF NotFound(a.lk) THEN [b1 EXCEPT !.id = ""]
         ELSE [b1 EXCEPT !.diags = FromErr("GetServiceByID", "remote")]
    ELSE [b1 EXCEPT !.fields.name = a.lk.fields.name]

\* -------------------------------------------- resourceIAMServiceCreate
\* crErr: CreateService failed; addErr: AddScopes failed
ServiceCreateArgs ==
  [id : {""}, clientOK : BOOLEAN, crErr : BOOLEAN, addErr : BOOLEAN,
   created : {"svc-1", "svc-2"}]

\* variant: the error of AddScopes is dropped
addScopesFailedIgnored(b) == b

\* diags = append(diags, diag.FromErr(err)...)
addScopesFailed(b) == [b EXCEPT !.diags = @ \o FromErr("AddScopes", "remote")]

\* trace: the remote calls and the SetId calls in the order they happen
resourceIAMServiceCreate(a) ==
  LET base == [id |-> a.id, diags |-> << >>, calls |-> << >>, trace |-> << >>] IN
  IF ~a.clientOK THEN [base EXCEPT !.diags = FromErr("IAMClient", "config")]
  ELSE
    LET b1 == [base EXCEPT !.calls = <<Call("CreateService", "")>>,
                           !.trace = <<"CreateService">>] IN
    IF a.crErr THEN [b1 EXCEPT !.diags = FromErr("CreateService", "remote")]
    ELSE
      LET b2 == [b1 EXCEPT !.id = a.created,
                           !.calls = Append(@, Call("AddScopes", a.created)),
                           !.trace = @ \o <<"SetId", "AddScopes">>] IN
      IF a.addErr THEN addScopesFailed(b2) ELSE b2

\* ----------------------------------------------- resourcePKICertCreate
\* roles: the roles of the tenant; role: the role asked for
CertCreateArgs ==
  [id : {""}, clientOK : BOOLEAN, pathErr : BOOLEAN, tenantErr : BOOLEAN,
   roles : {{}, {"r1"}}, role : {"r1", "r2"}, issueErr : BOOLEAN, serial : {"sn-1"}]

\* variant: every role is found
GetRoleOkAlways(roles, roleName) == TRUE

\* role, ok := tenant.GetRoleOk(roleName)
GetRoleOk(roles, roleName) == roleName \in roles

resourcePKICertCreate(a) ==
  LET base == [id |-> a.id, diags |-> << >>, calls |-> << >>, trace |-> << >>] IN
  IF ~a.clientOK THEN [base EXCEPT !.diags = FromErr("PKIClient", "config")]
  ELSE IF a.pathErr THEN [base EXCEPT !.diags = FromErr("create PKI cert logicalPath", "path")]
  ELSE
    LET b1 == [base EXCEPT !.calls = <<Call("Retrieve", "")>>,
                           !.trace = <<"Retrieve">>] IN
    IF a.tenantErr THEN [b1 EXCEPT !.diags = FromErr("Retrieve", "remote")]
    ELSE IF ~GetRoleOk(a.roles, a.role)
    THEN [b1 EXCEPT !.diags = FromErr("role", "not found or invalid")]
    ELSE
      LET b2 == [b1 EXCEPT !.calls = Append(@, Call("IssueCertificate", a.role)),
                           !.trace = Append(@, "IssueCertificate")] IN
      IF a.issueErr THEN [b2 EXCEPT !.diags = FromErr("issue PKI cert", "remote")]
      \* certToSchema always returns nil
      ELSE [b2 EXCEPT !.id = a.serial, !.trace = Append(@, "SetId")]

\* ------------------------------------------------------- the deletes
\* what a delete call answers: an error, or whether something was deleted
DeleteResponses ==
  {[err |-> TRUE, ok |-> FALSE], [err |-> FALSE, ok |-> FALSE], [err |-> FALSE, ok |-> TRUE]}

DeleteArgs == [id : {"r-1"}, clientOK : BOOLEAN, del : DeleteResponses]

resourceIAMClientDelete(a) ==
  LET base == [id |-> a.id, diags |-> << >>, calls |-> << >>, trace |-> << >>] IN
  IF ~a.clientOK THEN [base EXCEPT !.diags = FromErr("IAMClient", "config")]
  ELSE
    LET b1 == [base EXCEPT !.calls = <<Call("DeleteClient", a.id)>>] IN
    IF a.del.err THEN [b1 EXCEPT !.diags = FromErr("DeleteClient", "remote")]
    ELSE IF ~a.del.ok THEN [b1 EXCEPT !.diags = FromErr("delete", "ErrDeleteClientFailed")]
    ELSE [b1 EXCEPT !.id = ""]

resourceIAMServiceDelete(a) ==
  LET base == [id |-> a.id, diags |-> << >>, calls |-> << >>, trace |-> << >>] IN
  IF ~a.clientOK THEN [base EXCEPT !.diags = FromErr("IAMClient", "config")]
  ELSE
    LET b1 == [base EXCEPT !.calls = <<Call("DeleteService", a.id)>>] IN
    IF a.del.err THEN [b1 EXCEPT !.diags = FromErr("DeleteService", "remote")]
    ELSE IF ~a.del.ok THEN [b1 EXCEPT !.diags = FromErr("delete", "ErrDeleteServiceFailed")]
    ELSE [b1 EXCEPT !.id = ""]

\* the answer of RevokeCertificateBySerial: RevocationTime 0 means that
\* nothing was revoked
CertDeleteArgs ==
  [id : {"sn-1"}, clientOK : BOOLEAN, pathErr : BOOLEAN,
   rev : {[err |-> TRUE, RevocationTime |-> 0], [err |-> FALSE, RevocationTime |-> 0],
          [err |-> FALSE, RevocationTime |-> 1]}]

resourcePKICertDelete(a) ==
  LET base == [id |-> a.id, diags |-> << >>, calls |-> << >>, trace |-> << >>] IN
  IF ~a.clientOK THEN [base EXCEPT !.diags = FromErr("PKIClient", "config")]
  ELSE IF a.pathErr THEN [base EXCEPT !.diags = FromErr("delete PKI cert logicalPath", "path")]
  ELSE
    LET b1 == [base EXCEPT !.calls = <<Call("RevokeCertificateBySerial", a.id)>>] IN
    IF a.rev.err THEN [b1 EXCEPT !.diags = FromErr("delete PKI cert", "remote")]
    ELSE IF a.rev.RevocationTime > 0 THEN [b1 EXCEPT !.id = ""]
    ELSE b1

\* strconv.Atoi on the IDs a policy can carry in state
PolicyIDs == {"7", "x"}
Atoi(s) == IF s = "7" THEN [err |-> FALSE, n |-> 7] ELSE [err |-> TRUE, n |-> 0]

PolicyDeleteArgs == [id : PolicyIDs, clientOK : BOOLEAN, del : DeleteResponses]

resourceS3CredsPolicyDelete(a) ==
  LET base == [id |-> a.id, diags |-> << >>, calls |-> << >>, trace |-> << >>] IN
  IF ~a.clientOK THEN [base EXCEPT !.diags = FromErr("S3CredsClient", "config")]
  ELSE IF Atoi(a.id).err THEN [base EXCEPT !.diags = FromErr("Atoi", "syntax")]
  ELSE
    LET b1 == [base EXCEPT !.calls = <<Call("DeletePolicy", Atoi(a.id).n)>>] IN
    IF a.del.err THEN [b1 EXCEPT !.diags = FromErr("DeletePolicy", "remote")]
    ELSE IF a.del.ok THEN [b1 EXCEPT !.id = ""]
    ELSE b1

RepositoryDeleteArgs == [id : {"r-1"}, clientOK : BOOLEAN, delErr : BOOLEAN]

resourceDICOMRepositoryDelete(a) ==
  LET base == [id |-> a.id, diags |-> << >>, calls |-> << >>, trace |-> << >>] IN
  IF ~a.clientOK THEN [base EXCEPT !.diags = FromErr("getDICOMConfigClient", "config")]
  ELSE
    LET b1 == [base EXCEPT !.calls = <<Call("DeleteRepository", a.id)>>] IN
    IF a.delErr THEN [b1 EXCEPT !.diags = FromErr("DeleteRepository", "remote")]
    ELSE [b1 EXCEPT !.id = ""]

\* the delete of a container host named h1 next to another host
HostDeleteArgs ==
  [id : {"i-1", "i-2"}, clientOK : BOOLEAN,
   dr : DetailsResponses(<<OtherHost, SameHost>>, "h1"), dErr : BOOLEAN]

\* ------------------------------------------------------------ the runs
InitRes ==
  /\ pc = "res"
  /\ NoHostExceptID
  /\ svcFailed = << >>
  /\ applied = FALSE
  /\ out = << >>
  /\ \/ fn = "resourceIAMClientRead" /\ args \in ClientReadArgs
     \/ fn = "resourceIAMServiceRead" /\ args \in ServiceReadArgs
     \/ fn = "resourceIAMServiceCreate" /\ args \in ServiceCreateArgs
     \/ fn = "resourcePKICertCreate" /\ args \in CertCreateArgs
     \/ fn = "resourceIAMClientDelete" /\ args \in DeleteArgs
     \/ fn = "resourceIAMServiceDelete" /\ args \in DeleteArgs
     \/ fn = "resourcePKICertDelete" /\ args \in CertDeleteArgs
     \/ fn = "resourceS3CredsPolicyDelete" /\ args \in PolicyDeleteArgs
     \/ fn = "resourceDICOMRepositoryDelete" /\ args \in RepositoryDeleteArgs
     \/ fn = "resourceContainerHostDelete" /\ args \in HostDeleteArgs
  /\ id = args.id

\* the handler f returns r: the ID, the diagnostics and the calls it leaves
Returns(f, r) ==
  /\ pc = "res" /\ fn = f /\ ~applied
  /\ id' = r.id
  /\ diags' = r.diags
  /\ calls' = r.calls
  /\ out' = r
  /\ applied' = TRUE
  /\ UNCHANGED <<pc, fn, args, svcFailed>>
  /\ UNCHANGED <<name, user, privateKey, commands, files, timeout, fs,
                 fsChanged, instances, createRes, recovered, createFiles,
                 instanceID, ipAddress, seen, polls, elapsed, waitErr, sshLog,
                 cmdIdx, ops, lastOp, fetchedID, writeErrs, lastRead, stored>>

ClientRead       == Returns("resourceIAMClientRead", resourceIAMClientRead(args))
ServiceRead      == Returns("resourceIAMServiceRead", resourceIAMServiceRead(args))
ServiceCreate    == Returns("resourceIAMServiceCreate", resourceIAMServiceCreate(args))
CertCreate       == Returns("resourcePKICertCreate", resourcePKICertCreate(args))
ClientDelete     == Returns("resourceIAMClientDelete", resourceIAMClientDelete(args))
ServiceDelete    == Returns("resourceIAMServiceDelete", resourceIAMServiceDelete(args))
CertDelete       == Returns("resourcePKICertDelete", resourcePKICertDelete(args))
PolicyDelete     == Returns("resourceS3CredsPolicyDelete", resourceS3CredsPolicyDelete(args))
RepositoryDelete ==
  Returns("resourceDICOMRepositoryDelete", resourceDICOMRepositoryDelete(args))
HostDelete ==
  Returns("resourceContainerHostDelete",
          resourceContainerHostDelete("h1", args.id, args.clientOK, args.dr, args.dErr))

NextRes ==
  \/ ClientRead
  \/ ServiceRead
  \/ ServiceCreate
  \/ CertCreate
  \/ ClientDelete
  \/ ServiceDelete
  \/ CertDelete
  \/ PolicyDelete
  \/ RepositoryDelete
  \/ HostDelete

SpecRes == InitRes /\ [][NextRes]_vars

\* ===================================================================
\* Properties
\* ===================================================================
TerminalFailure == {"failed", "terminated", "shutting-down"}
PendingStates   == {"provisioning", "indeterminate"}
MutatingOps     == {"AddTags", "AddUserGroups", "RemoveUserGroups",
                    "AddSecurityGroups", "RemoveSecurityGroups",
                    "SetProtection", "Destroy", "Create"}

Issued(cs, op) == \E i \in 1..Len(cs) : cs[i].op = op
ClientFailed   == diags = FromErr("CartelClient", "config")
ExactlyOne(f)  == (f.Source = "") # (f.Content = "")
InSeq(x, sq)   == \E i \in 1..Len(sq) : sq[i] = x

\* C1: when the wait of create ends on a terminal-failure state or on the
\* create timeout, the last remote call is a Destroy of the host name, an
\* error diagnostic is returned, and nothing is copied or run over SSH.
C1_FailedWaitDestroys ==
  LET n == Len(seen)
      failed == (n > 0 /\ seen[n] \in TerminalFailure) \/ waitErr = "timeout"
  IN failed =>
       /\ pc = "done"
       /\ calls # << >>
       /\ calls[Len(calls)] = Call("Destroy", name)
       /\ HasError(diags)
       /\ sshLog = << >>

C1_Witness ==
  /\ pc = "done"
  /\ Len(seen) = 2 /\ seen[2] = "failed"
  /\ createFiles # << >> /\ commands # << >>
  /\ Issued(calls, "Destroy")

\* the creation call failed with a response, and either without a host
\* object or with a status of 500 or more
Ambiguous(r) == r.err /\ r.status # NoResp /\ (~r.ch \/ r.status >= 500)

\* C2: after an ambiguous creation failure create looks the instance up by
\* name among all instances; found: it goes on to the wait with the ID and
\* private address of that instance and without a Destroy; not found: it
\* destroys the name and returns the creation error.
C2_AmbiguousRecovery ==
  [][(pc = "call" /\ Ambiguous(createRes')) =>
       IF recovered' # Nil
       THEN /\ calls' = calls \o <<Call("Create", name), Call("GetAllInstances", "")>>
            /\ recovered'.NameTag = name
            /\ InSeq(recovered', instances')
            /\ instanceID' = recovered'.InstanceID
            /\ ipAddress' = recovered'.PrivateAddress
            /\ id' = recovered'.InstanceID
            /\ pc' = "wait"
            /\ diags' = << >>
       ELSE /\ calls' = calls \o <<Call("Create", name), Call("GetAllInstances", ""),
                                   Call("Destroy", name)>>
            /\ diags' = FromErr("create error", "createErr")
            /\ pc' = "done"]_vars

C2_Witness ==
  /\ Ambiguous(createRes)
  /\ createRes.status = 500 /\ createRes.ch
  /\ recovered # Nil
  /\ pc = "wait"
  /\ id = recovered.InstanceID

\* the creation call failed without a response, or with a host object and a
\* status below 500
Unambiguous(r) == r.err /\ (r.status = NoResp \/ (r.ch /\ r.status < 500))

\* C3: after an unambiguous creation failure create has issued exactly the
\* creation call and a Destroy of the name, returns an error, has not set
\* the resource ID and has not polled.
C3_UnambiguousFailure ==
  Unambiguous(createRes) =>
    /\ pc = "done"
    /\ calls = <<Call("Create", name), Call("Destroy", name)>>
    /\ HasError(diags)
    /\ id = ""
    /\ polls = 0 /\ seen = << >>

C3_Witness ==
  /\ createRes = [err |-> TRUE, status |-> 400, ch |-> TRUE]
  /\ pc = "done"
  /\ Issued(calls, "Destroy")

\* C4: a create with commands and an empty user or an empty private key
\* returns an error and issues no remote call.
C4_CommandsNeedCredentials ==
  (pc # "init" /\ Len(commands) > 0 /\ (user = "" \/ privateKey = "")) =>
    /\ pc = "done"
    /\ HasError(diags)
    /\ calls = << >>
    /\ createRes = NoCreate

C4_Witness ==
  /\ pc = "done"
  /\ Len(commands) > 0 /\ user # "" /\ privateKey = ""
  /\ diags = FromErr("privateKey must be set", "validation")

\* C5: a read, update or delete that fetches details whose InstanceID is not
\* the stored ID fails with the instance-ID-mismatch error, leaves the
\* stored ID as it was and issues no mutating remote call.
C5_MismatchIsFatal ==
  [][(ops' = ops + 1 /\ fetchedID' # "" /\ fetchedID' # id) =>
       /\ diags' = FromErr(lastOp', ErrInstanceIDMismatch)
       /\ id' = id
       /\ \A i \in 1..Len(calls') : calls'[i].op \notin MutatingOps]_vars

C5_Witness ==
  /\ lastOp = "update"
  /\ id = "i-2" /\ fetchedID = "i-1"
  /\ diags = FromErr("update", ErrInstanceIDMismatch)

\* C6 as stated: a request with a reported entry and a valid entry still
\* goes on to the creation call.
C6_Original ==
  (/\ pc # "init"
   /\ ~ClientFailed
   /\ commands = << >>
   /\ \E i \in 1..Len(files) : ~ExactlyOne(files[i])
   /\ \E i \in 1..Len(files) : ExactlyOne(files[i]) /\ files[i].Source = "")
  => Issued(calls, "Create")

\* C6: an entry with neither or both of source and content is reported and
\* left out of the set collectFilesToCreate returns, an entry with exactly
\* one of them (and a source that opens) is kept in it, and every entry kept
\* has exactly one of the two; but one reported entry makes create return
\* before any remote call.
C6_ReportedEntriesStopCreate ==
  (pc # "init" /\ ~ClientFailed) =>
    /\ \A i \in 1..Len(files) :
         ~ExactlyOne(files[i]) =>
           /\ ~InSeq(files[i], createFiles)
           /\ \E j \in 1..Len(diags) :
                /\ diags[j].Severity = "error"
                /\ diags[j].Summary = "conflict in file block"
                /\ diags[j].About = files[i].Destination
           /\ pc = "done" /\ calls = << >> /\ sshLog = << >> /\ id = ""
    /\ \A i \in 1..Len(files) :
         (/\ ExactlyOne(files[i])
          /\ files[i].Source # "" => (~fsChanged /\ fs[files[i].Source] = "ok"))
           => InSeq(files[i], createFiles)
    /\ \A i \in 1..Len(createFiles) :
         ExactlyOne(createFiles[i]) /\ InSeq(createFiles[i], files)

C6_Witness ==
  /\ pc = "done"
  /\ Len(files) = 2 /\ ~ExactlyOne(files[1]) /\ ExactlyOne(files[2])
  /\ createFiles = <<files[2]>>
  /\ calls = << >>

\* C7: a create with an entry that has both source and content is rejected
\* with that entry's diagnostic and without any remote call.
C7_BothSetRejected ==
  (pc # "init" /\ \E i \in 1..Len(files) : files[i].Source # "" /\ files[i].Content # "") =>
    /\ pc = "done"
    /\ HasError(diags)
    /\ ~ClientFailed => \E j \in 1..Len(diags) : diags[j].Cause = "both"
    /\ calls = << >>
    /\ polls = 0

C7_Witness ==
  /\ pc = "done"
  /\ Len(files) = 1 /\ files[1].Source # "" /\ files[1].Content # ""
  /\ diags = <<Diag("error", "conflict in file block", "both", "d1")>>

\* C8: the wait goes on as long as the states fetched are pending, and when
\* n pending states are followed by succeeded it has fetched exactly n+1
\* states and create is in the bootstrap phase without a Destroy.
C8_PollsUntilSucceeded ==
  LET n == Len(seen) IN
  /\ (n > 0 /\ \A i \in 1..n : seen[i] \in PendingStates)
       => /\ polls = n
          /\ pc = "wait" \/ (pc = "done" /\ waitErr = "timeout")
  /\ (n > 0 /\ seen[n] = "succeeded") =>
       /\ \A i \in 1..(n - 1) : seen[i] \in PendingStates
       /\ polls = n
       /\ pc \in {"copy", "run", "done"}
       /\ pc \in {"copy", "run"} =>
            Cardinality({i \in 1..Len(calls) : calls[i].op = "GetDeploymentState"}) = n
       /\ ~Issued(calls, "Destroy")
       /\ waitErr = ""

C8_Witness ==
  /\ seen = <<"provisioning", "provisioning", "succeeded">>
  /\ polls = 3
  /\ pc = "copy"

\* C9: every create returns: the wait loop ends whatever the remote reports.
C9_CreateReturns == <>(pc = "done")

C9_Witness ==
  /\ pc = "done"
  /\ waitErr = "timeout"
  /\ Len(seen) >= 2
  /\ \A i \in 1..Len(seen) : seen[i] \in PendingStates

\* C10: over SSH every file write precedes every command, the commands run
\* are a prefix of the declared list in its order, and a failed command is
\* the last thing run: create returns with an error naming it.
C10_BootstrapOrder ==
  LET w == Cardinality({i \in 1..Len(sshLog) : sshLog[i].op = "write"}) IN
  /\ \A i \in 1..Len(sshLog) :
       IF i <= w THEN sshLog[i].op = "write"
       ELSE /\ sshLog[i].op = "run"
            /\ i - w <= Len(commands)
            /\ sshLog[i].arg = commands[i - w]
  /\ \A i \in 1..Len(sshLog) :
       ~sshLog[i].ok =>
         /\ i = Len(sshLog)
         /\ pc = "done"
         /\ diags # << >>
         /\ diags[Len(diags)] = Diag("error", "command", "ssh", sshLog[i].arg)

C10_Witness ==
  /\ pc = "done"
  /\ Len(sshLog) = 3
  /\ sshLog[1].op = "write"
  /\ sshLog[2] = [op |-> "run", arg |-> "c1", ok |-> TRUE]
  /\ sshLog[3] = [op |-> "run", arg |-> "c2", ok |-> FALSE]

\* ------------------------------------------------------------------ C11
CopyWarned ==
  \E i \in 1..Len(diags) :
    /\ diags[i].Severity = "warning"
    /\ diags[i].Summary = "failed to copy all files"

Runs == Cardinality({i \in 1..Len(sshLog) : sshLog[i].op = "run"})

\* C11: once a file copy has failed (a source that cannot be opened or
\* stat'ed, or a write the remote side refused) create goes on: nothing is
\* an error before a command fails, no Destroy is issued and the host stays,
\* and the command loop runs every command up to the first that fails.
C11_CopyFailureTolerated ==
  (CopyWarned \/ writeErrs # {}) =>
    /\ pc \in {"run", "done"}
    /\ ~Issued(calls, "Destroy")
    /\ NameInUse(instances, name) \/ name = ""
    /\ Cardinality({i \in 1..Len(diags) : diags[i].Severity = "warning"}) <= 1
    /\ pc = "run" => ~HasError(diags) /\ Runs = cmdIdx - 1
    /\ pc = "done" =>
         \/ Runs = Len(commands)
         \/ /\ Runs > 0
            /\ ~sshLog[Len(sshLog)].ok

C11_Witness ==
  /\ pc = "done"
  /\ CopyWarned
  /\ ~HasError(diags)
  /\ id # ""
  /\ Len(commands) = 2
  /\ Runs = 2

\* ------------------------------------------------------------------ C12
Written == {sshLog[i].arg : i \in {j \in 1..Len(sshLog) : sshLog[j].op = "write"}}

\* the statement as the specification has it: a source that cannot be
\* opened or stat'ed gives a diagnostic that is not an error, create still
\* issues its Create call, and every other entry is copied
C12_Original ==
  /\ \A i \in 1..Len(diags) :
       diags[i].Cause \in {"open", "stat"} =>
         /\ diags[i].Severity # "error"
         /\ Issued(calls, "Create")
  /\ (CopyWarned /\ pc \in {"run", "done"}) =>
       \A j \in 1..Len(createFiles) :
         createFiles[j].Source = "" => createFiles[j].Destination \in Written

\* C12: a source that cannot be opened or stat'ed when create validates its
\* input is an error diagnostic about that entry and create returns before
\* any remote call; a source that fails in the copy phase is one warning,
\* create goes on, the entries before it are written and neither it nor any
\* entry after it is.
C12_SourceFailure ==
  /\ \A i \in 1..Len(files) :
       (/\ pc # "init" /\ ~ClientFailed /\ ~fsChanged
        /\ ExactlyOne(files[i]) /\ files[i].Source # ""
        /\ fs[files[i].Source] # "ok") =>
         /\ \E j \in 1..Len(diags) :
              /\ diags[j].Severity = "error"
              /\ diags[j].Cause = (IF fs[files[i].Source] = "noopen" THEN "open" ELSE "stat")
              /\ diags[j].About = files[i].Destination
         /\ pc = "done" /\ calls = << >> /\ sshLog = << >> /\ id = ""
  /\ (CopyWarned /\ pc \in {"run", "done"}) =>
       LET bad == {j \in 1..Len(createFiles) :
                     createFiles[j].Source # "" /\ fs[createFiles[j].Source] # "ok"}
           k == CHOOSE j \in bad : \A l \in bad : j <= l
       IN /\ bad # {}
          /\ Written = {createFiles[j].Destination : j \in 1..(k - 1)}
          /\ Cardinality({j \in 1..Len(diags) : diags[j].Severity = "warning"}) = 1

C12_Witness ==
  /\ pc = "done"
  /\ CopyWarned
  /\ Len(createFiles) = 2
  /\ createFiles[1].Source # ""
  /\ createFiles[2].Source = ""
  /\ Written = {}
  /\ Runs = Len(commands)

\* ------------------------------------------------------------------ C13
ReadStep == lastOp' = "read" /\ ops' = ops + 1

\* C13: a read that fetches a deployment state other than succeeded clears
\* the stored ID, returns no diagnostic, does not ask for the details and
\* leaves the stored groups and tags as they were.
C13_NotSucceededIsAbsent ==
  [][(/\ ReadStep
      /\ lastRead'.stateAsked
      /\ ~lastRead'.sr.err
      /\ lastRead'.sr.state # "succeeded") =>
       /\ id' = ""
       /\ diags' = << >>
       /\ ~lastRead'.detailsAsked
       /\ ~Issued(calls', "GetDetails")
       /\ stored' = stored]_vars

C13_Witness ==
  /\ lastOp = "read"
  /\ lastRead.stateAsked
  /\ ~lastRead.sr.err
  /\ lastRead.sr.state = "provisioning"
  /\ id = ""
  /\ diags = << >>
  /\ stored = StoredBefore

C15_Original ==
  (lastOp = "read" /\ lastRead.projected) =>
    /\ stored.security_groups = {g \in lastRead.remote.SecurityGroups : g # "base"}
    /\ stored.user_groups = {g \in lastRead.remote.LdapGroups : g # "base"}
    /\ DOMAIN stored.tags = {k \in DOMAIN lastRead.remote.Tags : k # "billing"}
    /\ \A k \in DOMAIN stored.tags : stored.tags[k] = lastRead.remote.Tags[k]

\* C15: after a read that found the host succeeded with a matching ID, the
\* stored security groups are the remote ones without base, the stored
\* user groups are the remote LDAP groups as they are, and the stored tags
\* are the remote tags whose key is not billing and whose value is not
\* empty.
C15_Projection ==
  (lastOp = "read" /\ lastRead.projected) =>
    /\ stored.security_groups = {g \in lastRead.remote.SecurityGroups : g # "base"}
    /\ stored.user_groups = lastRead.remote.LdapGroups
    /\ DOMAIN stored.tags = {k \in DOMAIN lastRead.remote.Tags :
                               k # "billing" /\ lastRead.remote.Tags[k] # ""}
    /\ \A k \in DOMAIN stored.tags : stored.tags[k] = lastRead.remote.Tags[k]

C15_Witness ==
  /\ lastOp = "read"
  /\ lastRead.projected
  /\ diags = << >>
  /\ lastRead.remote.SecurityGroups = {"base", "g1"}
  /\ stored.security_groups = {"g1"}
  /\ "base" \in stored.user_groups
  /\ DOMAIN lastRead.remote.Tags = TagKeys
  /\ DOMAIN stored.tags = {"env"}

\* ------------------------------------------------------------------ C16
\* C16: for every old and new set the additions are the elements of new
\* that are not in old and the removals the elements of old that are not
\* in new; the two are disjoint, old without the removals and with the
\* additions is new, and {a,b,c}, {b,c,d} give {d} and {a}.
C16_Reconciliation ==
  (fn = "difference" /\ applied) =>
    /\ out.toAdd = {x \in args.new : x \notin args.old}
    /\ out.toRemove = {x \in args.old : x \notin args.new}
    /\ out.toAdd \cap out.toRemove = {}
    /\ {x \in args.old : x \notin out.toRemove} \cup out.toAdd = args.new
    /\ (args.old = {"a", "b", "c"} /\ args.new = {"b", "c", "d"}) =>
         (out.toAdd = {"d"} /\ out.toRemove = {"a"})

C16_Witness ==
  /\ fn = "difference" /\ applied
  /\ args.old = {"a", "b", "c"}
  /\ args.new = {"b", "c", "d"}
  /\ out = [toAdd |-> {"d"}, toRemove |-> {"a"}]

\* ------------------------------------------------------------------ C17
\* C17: normalizeTags returns exactly the entries of its argument whose key
\* is not billing and whose value is not empty, with their values, and
\* normalizing the result again changes nothing.
C17_NormalizeTags ==
  (fn = "normalizeTags" /\ applied) =>
    /\ DOMAIN out.tags = {k \in DOMAIN args.tags : k # "billing" /\ args.tags[k] # ""}
    /\ \A k \in DOMAIN out.tags : out.tags[k] = args.tags[k]
    /\ out.again = out.tags

C17_Witness ==
  /\ fn = "normalizeTags" /\ applied
  /\ DOMAIN args.tags = {"billing", "env", "empty"}
  /\ args.tags["billing"] = "x" /\ args.tags["env"] = "prod" /\ args.tags["empty"] = ""
  /\ DOMAIN out.tags = {"env"}
  /\ out.tags["env"] = "prod"

\* ------------------------------------------------------------------ C18
\* C18: the options of the Create call never hold both a non-empty subnet
\* id and a subnet type.
C18_SubnetExclusive ==
  (fn = "createOptions" /\ applied) =>
    ~(out.InSubnet # "" /\ out.SubnetType # "")

\* ------------------------------------------------------------------ C19
TooMany(m) == Cardinality(DOMAIN m) > 8
UsesName(m) == \E k \in DOMAIN m : k \in {"name", "Name", "NAME"}
UsesBilling(m) == "billing" \in DOMAIN m
TooLong(m) == \E k \in DOMAIN m : Len(m[k]) > 255

\* the statement as the specification has it: more than 8 entries, a name
\* key or the billing key make validateTags reject the map
C19_Original ==
  (fn = "validateTags" /\ applied) =>
    /\ (TooMany(args.tagsMap) \/ UsesName(args.tagsMap) \/ UsesBilling(args.tagsMap))
         => out.diags # {}
    /\ (~TooMany(args.tagsMap) /\ ~UsesName(args.tagsMap)
        /\ ~UsesBilling(args.tagsMap) /\ ~TooLong(args.tagsMap))
         => out.diags = {}

\* C19: validateTags rejects a map exactly when it has more than 8 entries,
\* uses the key name in some letter case, or has a value of more than 255
\* characters; the billing key is accepted.
C19_ValidateTags ==
  (fn = "validateTags" /\ applied) =>
    (out.diags # {}) <=>
      (TooMany(args.tagsMap) \/ UsesName(args.tagsMap) \/ TooLong(args.tagsMap))

C19_Witness ==
  /\ fn = "validateTags" /\ applied
  /\ UsesBilling(args.tagsMap)
  /\ Cardinality(DOMAIN args.tagsMap) = 8
  /\ Len(args.tagsMap["billing"]) = 255
  /\ out.diags = {}

\* ------------------------------------------------------------------ C20
\* C20: when a remote call of the handler has returned an error, the
\* handler returns an error diagnostic.
C20_FailuresSurfaced ==
  (applied /\ svcFailed # << >>) => HasError(diags)

\* ------------------------------------------------------------------ C21
Opens(log, h) == {i \in 1..Len(log) : log[i] = [ev |-> "open", h |-> h]}
Closes(log, h) == {i \in 1..Len(log) : log[i] = [ev |-> "close", h |-> h]}

\* C21: when collectFilesToCreate or copyFiles returns, every handle it
\* opened has been closed, also when the stat of a source failed; a source
\* that could not be opened has no handle.
C21_HandlesClosed ==
  (fn \in {"collectFilesToCreate", "copyFiles"} /\ applied) =>
    /\ \A i \in 1..Len(args.files) :
         LET f == args.files[i] IN
         /\ Cardinality(Opens(out.log, f.Destination))
              = Cardinality(Closes(out.log, f.Destination))
         /\ \A c \in Closes(out.log, f.Destination) :
              \E o \in Opens(out.log, f.Destination) : o < c
         /\ (f.Source # "" /\ args.fs[f.Source] = "noopen")
              => Opens(out.log, f.Destination) = {}
    /\ \A j \in 1..Len(out.log) :
         \E i \in 1..Len(args.files) : args.files[i].Destination = out.log[j].h

C21_Witness ==
  /\ fn = "copyFiles" /\ applied
  /\ out.err = "stat"
  /\ Len(args.files) = 2
  /\ out.writes = <<"d1">>
  /\ out.log = <<[ev |-> "open", h |-> "d2"], [ev |-> "close", h |-> "d2"]>>

\* ------------------------------------------------------------------ C22
\* C22: no step of create removes the host that carried the name before the
\* create was invoked.
C22_PreExistingHostKept ==
  [][InSeq(SameHost, instances) => InSeq(SameHost, instances')]_vars

\* ------------------------------------------------------------------ C23
CommandFailed == \E i \in 1..Len(sshLog) : sshLog[i].op = "run" /\ ~sshLog[i].ok

\* C23: once the poll has seen succeeded, create issues no Destroy and the
\* host stays; when a command then fails, create returns an error and the
\* ID stays the instance ID.
C23_NoDestroyAfterSucceeded ==
  /\ InSeq("succeeded", seen) =>
       /\ ~Issued(calls, "Destroy")
       /\ NameInUse(instances, name) \/ name = ""
  /\ CommandFailed =>
       /\ InSeq("succeeded", seen)
       /\ pc = "done"
       /\ HasError(diags)
       /\ id # "" /\ id = instanceID

C23_Witness ==
  /\ pc = "done"
  /\ CommandFailed
  /\ HasError(diags)
  /\ id = "i-new"
  /\ ~Issued(calls, "Destroy")
  /\ InSeq(NewHost("h1"), instances)

\* ------------------------------------------------------------------ C24
\* C24: when create has returned without an error diagnostic, the ID is set
\* and is the instance ID of the creation call or of the recovery lookup.
C24_SuccessHasID ==
  (pc = "done" /\ ~HasError(diags)) => (id # "" /\ id = instanceID)

\* ------------------------------------------------------------------ C25
StepOrder == <<"AddTags", "AddUserGroups", "RemoveUserGroups",
               "AddSecurityGroups", "RemoveSecurityGroups", "SetProtection">>

\* the step is called for by the plan
StepWanted(p, op) ==
  CASE op = "AddTags" -> p.tags
    [] op = "AddUserGroups" -> p.newU \ p.oldU # {}
    [] op = "RemoveUserGroups" -> p.oldU \ p.newU # {}
    [] op = "AddSecurityGroups" -> p.newS \ p.oldS # {}
    [] op = "RemoveSecurityGroups" -> p.oldS \ p.newS # {}
    [] op = "SetProtection" -> p.protect

StepGroups(p, op) ==
  CASE op = "AddUserGroups" -> p.newU \ p.oldU
    [] op = "RemoveUserGroups" -> p.oldU \ p.newU
    [] op = "AddSecurityGroups" -> p.newS \ p.oldS
    [] op = "RemoveSecurityGroups" -> p.oldS \ p.newS
    [] OTHER -> {}

WantedOps(p) == SelectSeq(StepOrder, LAMBDA op : StepWanted(p, op))

\* C25: update issues the steps the plan calls for in the order tags, user
\* groups (add, remove), security groups (add, remove), protection, each
\* group step with its non-empty difference; a failing step is the last one
\* issued and its error is returned, the steps before it stay applied; when
\* no step fails the groups of the host go from the old sets to the new sets.
C25_UpdateOrder ==
  (fn = "resourceContainerHostUpdate" /\ applied) =>
    LET p == args.plan
        w == WantedOps(p)
        n == IF args.failAt = 0 THEN Len(w) ELSE args.failAt IN
      /\ Len(out.steps) = n
      /\ \A i \in 1..n : /\ out.steps[i].op = w[i]
                          /\ out.steps[i].groups = StepGroups(p, w[i])
      /\ HasError(out.diags) <=> args.failAt # 0
      /\ args.failAt = 0 => out.remote = [U |-> p.newU, S |-> p.newS]
      /\ args.failAt # 0 =>
           /\ out.remote.U =
                (IF \E i \in 1..(n - 1) : w[i] = "AddUserGroups"
                 THEN p.oldU \cup p.newU ELSE p.oldU)
                \ (IF \E i \in 1..(n - 1) : w[i] = "RemoveUserGroups"
                   THEN p.oldU \ p.newU ELSE {})
           /\ out.remote.S =
                (IF \E i \in 1..(n - 1) : w[i] = "AddSecurityGroups"
                 THEN p.oldS \cup p.newS ELSE p.oldS)
                \ (IF \E i \in 1..(n - 1) : w[i] = "RemoveSecurityGroups"
                   THEN p.oldS \ p.newS ELSE {})

\* the removal of security group g1 fails after tags and both user group
\* steps were applied
C25_Witness ==
  /\ fn = "resourceContainerHostUpdate" /\ applied
  /\ args.plan = [tags |-> TRUE, oldU |-> {"g1"}, newU |-> {"g2"},
                  oldS |-> {"g1"}, newS |-> {"g2"}, protect |-> TRUE]
  /\ args.failAt = 5
  /\ Len(out.steps) = 5
  /\ out.steps[5] = [op |-> "RemoveSecurityGroups", groups |-> {"g1"}]
  /\ out.remote = [U |-> {"g2"}, S |-> {"g1", "g2"}]
  /\ HasError(out.diags)

\* ------------------------------------------------------------------ C26
DeleteHandlers == {"resourceIAMClientDelete", "resourceIAMServiceDelete",
                   "resourcePKICertDelete", "resourceS3CredsPolicyDelete",
                   "resourceDICOMRepositoryDelete", "resourceContainerHostDelete"}

\* the delete call was issued and the remote side answered that the object
\* is gone
DeleteConfirmed ==
  CASE fn = "resourceIAMClientDelete" ->
         Issued(calls, "DeleteClient") /\ ~args.del.err /\ args.del.ok
    [] fn = "resourceIAMServiceDelete" ->
         Issued(calls, "DeleteService") /\ ~args.del.err /\ args.del.ok
    [] fn = "resourcePKICertDelete" ->
         Issued(calls, "RevokeCertificateBySerial") /\ ~args.rev.err
           /\ args.rev.RevocationTime > 0
    [] fn = "resourceS3CredsPolicyDelete" ->
         Issued(calls, "DeletePolicy") /\ ~args.del.err /\ args.del.ok
    [] fn = "resourceDICOMRepositoryDelete" ->
         Issued(calls, "DeleteRepository") /\ ~args.delErr
    [] fn = "resourceContainerHostDelete" ->
         Issued(calls, "Destroy") /\ ~args.dErr
    [] OTHER -> FALSE

\* C26: a delete clears the ID only when the remote deletion was confirmed;
\* when it was not, the ID is kept and an error diagnostic is returned.
C26_DeleteConfirmedOrError ==
  (pc = "res" /\ applied /\ fn \in DeleteHandlers) =>
    /\ id = "" => DeleteConfirmed
    /\ ~DeleteConfirmed => (id = args.id /\ HasError(diags))

\* ------------------------------------------------------------------ C27
ReadHandlers == {"resourceIAMClientRead", "resourceIAMServiceRead"}

\* C27: in the IAM client read and the IAM service read a lookup answered
\* with 404 clears the ID and returns no error; every other failure returns
\* an error and leaves the ID and the stored fields as they were.
C27_NotFoundClears ==
  (pc = "res" /\ applied /\ fn \in ReadHandlers) =>
    /\ (args.clientOK /\ args.lk.err /\ args.lk.status = 404) =>
         (id = "" /\ ~HasError(diags))
    /\ (~args.clientOK \/ (args.lk.err /\ args.lk.status # 404)) =>
         (HasError(diags) /\ id = args.id /\ out.fields = args.stored)

C27_Witness ==
  /\ pc = "res" /\ applied
  /\ fn = "resourceIAMServiceRead"
  /\ args.clientOK /\ args.lk.err /\ args.lk.status = 500
  /\ id = "r-1"
  /\ HasError(diags)
  /\ out.fields = [name |-> "a", description |-> "d1"]

\* ------------------------------------------------------------------ C28
\* position of the first e in trace t, 0 when it is not there
Pos(t, e) ==
  IF \E i \in 1..Len(t) : t[i] = e
  THEN CHOOSE i \in 1..Len(t) : t[i] = e /\ \A j \in 1..(i - 1) : t[j] # e
  ELSE 0

\* C28: the IAM service create adds the scopes only after the service was
\* created and its ID stored; when adding the scopes fails create returns
\* an error and the ID stays the ID of the created service.
C28_ScopesAfterCreate ==
  (pc = "res" /\ applied /\ fn = "resourceIAMServiceCreate") =>
    /\ Issued(calls, "AddScopes") =>
         /\ ~args.crErr
         /\ 0 < Pos(out.trace, "CreateService")
         /\ Pos(out.trace, "CreateService") < Pos(out.trace, "SetId")
         /\ Pos(out.trace, "SetId") < Pos(out.trace, "AddScopes")
    /\ (Issued(calls, "AddScopes") /\ args.addErr) =>
         (HasError(diags) /\ id # "" /\ id = args.created)

C28_Witness ==
  /\ pc = "res" /\ applied
  /\ fn = "resourceIAMServiceCreate"
  /\ args.addErr
  /\ out.trace = <<"CreateService", "SetId", "AddScopes">>
  /\ HasError(diags)
  /\ id = "svc-2"

\* ------------------------------------------------------------------ C29
\* the tags of a host that had tags t after the change c was sent: an empty
\* value removes the key
Changed(t, c) ==
  LET val(k) == IF k \in DOMAIN c THEN c[k] ELSE t[k] IN
  [k \in {x \in DOMAIN t \cup DOMAIN c : val(x) # ""} |-> val(k)]

\* C29: the change map of generateTagChange has no billing key, sets every
\* other key that old has and new lacks or leaves empty to "", sets every
\* other key of new to its value, and turns the tags of old other than
\* billing into those new asks for.
C29_TagChange ==
  (fn = "generateTagChange" /\ applied) =>
    /\ "billing" \notin DOMAIN out
    /\ \A k \in DOMAIN args.old \ {"billing"} :
         (k \notin DOMAIN args.new \/ args.new[k] = "") =>
           (k \in DOMAIN out /\ out[k] = "")
    /\ \A k \in DOMAIN args.new \ {"billing"} :
         (k \in DOMAIN out /\ out[k] = args.new[k])
    /\ normalizeTags(Changed(args.old, out)) = normalizeTags(args.new)

\* ------------------------------------------------------------------ C30
\* C30: the PKI certificate create issues no certificate and leaves the ID
\* unset when the tenant cannot be retrieved or the role is not one of the
\* tenant's; the ID is set only after a certificate was issued and is its
\* serial number.
C30_CertIssuedBeforeID ==
  (pc = "res" /\ applied /\ fn = "resourcePKICertCreate") =>
    /\ (args.tenantErr \/ args.role \notin args.roles) =>
         (~Issued(calls, "IssueCertificate") /\ id = "")
    /\ id # "" =>
         /\ ~args.issueErr
         /\ id = args.serial
         /\ 0 < Pos(out.trace, "IssueCertificate")
         /\ Pos(out.trace, "IssueCertificate") < Pos(out.trace, "SetId")

C30_Witness ==
  /\ pc = "res" /\ applied
  /\ fn = "resourcePKICertCreate"
  /\ args.clientOK /\ ~args.pathErr /\ ~args.tenantErr
  /\ args.role = "r2" /\ args.roles = {"r1"}
  /\ Issued(calls, "Retrieve")
  /\ ~Issued(calls, "IssueCertificate")
  /\ HasError(diags)
  /\ id = ""

====
